---- MODULE Spec2Model ----
(***************************************************************************)
(* Model of drivers/net/phy/rtl83xx-phy.c: the indirect SerDes access      *)
(* protocol, the polling lock, the EEE / medium operations that use it and *)
(* the firmware loader.                                                    *)
(***************************************************************************)
EXTENDS Integers, Sequences, FiniteSets, TLC

VARIABLES
    family,     \* soc_info.family
    swreg,      \* SoC registers reached through sw_r32 / sw_w32
    hwBusy,     \* the SerDes access engine is executing a command
    hwPending,  \* the command word the engine is executing
    sdsMem,     \* the SerDes registers behind the indirect protocol
    sdsFn,      \* the indirect access function being run
    sdsArg,     \* its arguments: phy_addr, page, phy_reg, v
    sdsPc,      \* position in that function
    sdsI,       \* its loop counter i
    sdsRet,     \* its return value
    sdsTrace,   \* the register accesses it has made, in order
    poll_lock,  \* the mutex poll_lock: 0 when free, else the thread holding it
    pPc,        \* per thread: position in its disable_polling / resume_polling pair
    pPort,      \* per thread: the port of its operation
    pSaved,     \* per thread: saved_state, a u64
    pPre,       \* per thread: the registers when its disable_polling took the lock
    poll0,      \* the registers before any operation started
    phyMem,     \* the PHY registers written so far, by (port, page, register)
    phyFill,    \* what every PHY register not yet written holds
    eOp,        \* the EEE or medium operation being run
    ePort,      \* phydev->mdio.addr
    eArg,       \* e->eee_enabled, or for rtl8214fc_set_port: port == PORT_FIBRE
    ePc,        \* position in the operation
    ePollState, \* its poll_state
    eLog,       \* its calls of disable_polling / resume_polling and PHY accesses
    eRet,       \* its return value
    fwAvail,    \* request_firmware finds the named image
    fwOrig,     \* the bytes of the image as request_firmware delivers them
    fwData,     \* fw->data, the image buffer
    fwPc,       \* position in rtl838x_request_fw
    fwSum,      \* its local checksum
    fwReads,    \* the header fields it has read
    fwH,        \* its return value: "h" or "NULL"
    fwHeld,     \* an image obtained by request_firmware has not been released
    phyFailAt,  \* the number of the PHY access whose back end fails, 0 for none
    phyReadyAt, \* per port: the read of the patch status that first shows ready
    cOp,        \* the configure routine being run
    cMac,       \* phydev->mdio.addr
    cPc,        \* position in the routine
    cVal,       \* its local val
    cLog,       \* its PHY accesses and SoC register writes, in order
    cStage,     \* per stage entered: the length of cLog when it was left
    cSw,        \* the SoC registers its write-lists have written
    cWhy,       \* the check at which it gave up
    cRet,       \* its return value
    dFn,        \* the register access function being called
    dArg,       \* its arguments: the register addressed, the value, *val before the call
    dVal,       \* the caller's variable that val points to
    dCalls,     \* the family back ends invoked, in order
    dRet,       \* its return value
    dPc,        \* position in the call
    serOp,      \* the SerDes routine being run (field helpers, setup, force mode)
    serArg,     \* its arguments
    serEnv,     \* what the hardware and the build do: hanging commands, undefined shifts
    serSt,      \* the SerDes registers, the access engine and the log of accesses
    serPc,      \* position in the routine
    serI,       \* the loop counter i of rtl9300_force_sds_mode
    serRet,     \* the value returned
    phydev,     \* link, duplex and speed of the PHY device as the driver reports them
    rsLocal,    \* rtl8226_read_status: its loop counter i, and whether a read failed
    ccFn,       \* per thread: the indirect access function it runs
    ccArg,      \* per thread: the register addressed and the value to write
    ccPc,       \* per thread: position in the function
    ccI,        \* per thread: the polling loop counter i
    ccCmd,      \* per thread: the local cmd
    ccRet,      \* per thread: the value returned
    ccTrace,    \* the threads in the order of their command and data register operations
    heap,       \* the words in memory after the end of the firmware image buffer
    soc_id,     \* soc_info.id
    xsg,        \* RTL839X_SDS12_13_XSG0, the shadow register, by byte offset of its words
    r9Fn,       \* the RTL839x SerDes access function being called
    r9Arg,      \* its arguments: phy_addr, phy_reg, v
    r9Ret,      \* its return value
    r9Acc,      \* the byte offsets of the shadow words it has accessed, in order
    r9Pc,       \* position in the call
    eGet        \* what the get operation that follows a set operation was asked and reports

sdsVars == <<hwBusy, hwPending, sdsMem, sdsFn, sdsArg, sdsPc, sdsI, sdsRet, sdsTrace>>

pollVars == <<poll_lock, pPc, pPort, pSaved, pPre, poll0>>

eeeVars == <<phyMem, phyFill, eOp, ePort, eArg, ePc, ePollState, eLog, eRet>>

fwVars == <<fwAvail, fwOrig, fwData, fwPc, fwSum, fwReads, fwH, fwHeld>>

cfgVars == <<phyFailAt, phyReadyAt, cOp, cMac, cPc, cVal, cLog, cStage, cSw, cWhy, cRet>>

dispVars == <<dFn, dArg, dVal, dCalls, dRet, dPc>>

\* the state of the operations that follow the configure routines
serVars == <<serOp, serArg, serEnv, serSt, serPc, serI, serRet>>
statVars == <<phydev, rsLocal>>
concVars == <<ccFn, ccArg, ccPc, ccI, ccCmd, ccRet, ccTrace>>
s839Vars == <<soc_id, xsg, r9Fn, r9Arg, r9Ret, r9Acc, r9Pc>>
lateVars == <<s839Vars, eGet>>
moreVars == <<dispVars, serVars, statVars, concVars, heap, lateVars>>

vars == <<family, swreg, sdsVars, pollVars, eeeVars, fwVars, cfgVars, moreVars>>

\* what the indirect SerDes access, the polling lock, the EEE and medium
\* operations, the firmware loader and the configure routines leave alone
notSds == <<pollVars, eeeVars, fwVars, cfgVars, moreVars>>
notPoll == <<sdsVars, eeeVars, fwVars, cfgVars, moreVars>>
notEee == <<sdsVars, pollVars, fwVars, cfgVars, moreVars>>
notFw == <<sdsVars, pollVars, eeeVars, cfgVars, moreVars>>
notCfg == <<sdsVars, pollVars, moreVars>>

----------------------------------------------------------------------------
(* Machine words.  A u32 or u64 is the set of the positions of its 1 bits, *)
(* so that all 32 (64) bits are kept: &, |, ^ and ~ are the set operations. *)

Bits32 == 0..31
Bits16 == 0..15

\* the word of a number below 2^31
W(n) == {b \in 0..30 : (n \div (2 ^ b)) % 2 = 1}

RECURSIVE NatFrom(_, _)
NatFrom(s, b) ==
    IF b > 30 THEN 0
    ELSE (IF b \in s THEN 2 ^ b ELSE 0) + NatFrom(s, b + 1)

\* the number of a word below 2^31
N(s) == NatFrom(s, 0)

\* a u32 seen as an int
ToInt(s) == IF 31 \in s THEN (N(s \ {31}) - 2 ^ 30) - 2 ^ 30 ELSE N(s)

Trunc32(s) == s \cap Bits32

Shl(s, n) == {b + n : b \in s}
Shl32(s, n) == Trunc32(Shl(s, n))
Shr(s, n) == {b - n : b \in {x \in s : x >= n}}

And32(a, b) == a \cap b
Or32(a, b) == a \cup b
Xor32(a, b) == (a \ b) \cup (b \ a)
Not32(a) == Bits32 \ a

\* BIT(n)
BIT(n) == {n}

\* The element of a one-element set.  The({e(s) : s \in {x}}) is e of x, with x
\* evaluated once however often e uses it.
The(S) == CHOOSE r \in S : TRUE

----------------------------------------------------------------------------
(* Families *)

RTL8380_FAMILY_ID == "RTL8380"
RTL8390_FAMILY_ID == "RTL8390"
RTL9300_FAMILY_ID == "RTL9300"
RTL9310_FAMILY_ID == "RTL9310"
OTHER_FAMILY_ID == "OTHER"

Families == {RTL8380_FAMILY_ID, RTL8390_FAMILY_ID, RTL9300_FAMILY_ID,
             RTL9310_FAMILY_ID, OTHER_FAMILY_ID}

----------------------------------------------------------------------------
(* SoC registers *)

SwRegs == {"RTL838X_SMI_POLL_CTRL",
           "RTL839X_SMI_PORT_POLLING_CTRL",
           "RTL839X_SMI_PORT_POLLING_CTRL_4",
           "RTL930X_SMI_POLL_CTRL",
           "RTL930X_SDS_INDACS_CMD",
           "RTL930X_SDS_INDACS_DATA",
           "RTL931X_SERDES_INDRT_ACCESS_CTRL",
           "RTL931X_SERDES_INDRT_DATA_CTRL"}

SdsCmdRegs == {"RTL930X_SDS_INDACS_CMD", "RTL931X_SERDES_INDRT_ACCESS_CTRL"}

\* sw_r32 of a register: the start/busy bit of a command register is the engine's
sw_r32(reg) ==
    IF reg \in SdsCmdRegs
    THEN (swreg[reg] \ {0}) \cup (IF hwBusy THEN {0} ELSE {})
    ELSE swreg[reg]

\* sw_w32 on the register file
sw_w32(val, reg, regs) == [regs EXCEPT ![reg] = Trunc32(val)]

\* sw_w32_mask(clear, set, reg)
sw_w32_mask(clear, set, reg, regs) ==
    sw_w32(Or32(And32(regs[reg], Not32(clear)), set), reg, regs)

----------------------------------------------------------------------------
(* Indirect SerDes access: rtl930x_read_sds_phy, rtl930x_write_sds_phy,      *)
(* rtl931x_read_sds_phy, rtl931x_write_sds_phy                               *)

\* iterations of the busy-bit polling loop
PollLimit == 100

EIO == 5

\* lanes 0..MaxLane are exercised
MaxLane == 1

SdsPageRegs == {<<0, 2>>, <<6, 19>>}
SdsAddrs == {<<l, pr[1], pr[2]>> : l \in 0..MaxLane, pr \in SdsPageRegs}
SdsVals == {4660, 65535}
SdsSeeds == {0, 65531}
SdsHighHalf == {0, 65535}

SdsFns == {"rtl930x_read_sds_phy", "rtl930x_write_sds_phy",
           "rtl931x_read_sds_phy", "rtl931x_write_sds_phy"}

SdsIsRead(fn) == fn \in {"rtl930x_read_sds_phy", "rtl931x_read_sds_phy"}

SdsFamily(fn) ==
    IF fn \in {"rtl930x_read_sds_phy", "rtl930x_write_sds_phy"}
    THEN RTL9300_FAMILY_ID ELSE RTL9310_FAMILY_ID

SdsCmdReg(f) ==
    IF f = RTL9300_FAMILY_ID THEN "RTL930X_SDS_INDACS_CMD"
    ELSE "RTL931X_SERDES_INDRT_ACCESS_CTRL"

SdsDataReg(f) ==
    IF f = RTL9300_FAMILY_ID THEN "RTL930X_SDS_INDACS_DATA"
    ELSE "RTL931X_SERDES_INDRT_DATA_CTRL"

\* phy_addr << 2 | page << 7 | phy_reg << 13 | flags
SdsCmdWord(a, flags) ==
    Or32(Or32(Or32(Shl32(W(a[1]), 2), Shl32(W(a[2]), 7)), Shl32(W(a[3]), 13)), W(flags))

\* the lane, page and register a command word addresses
SdsCmdAddr(cmd) ==
    <<N(Shr(cmd, 2) \cap (0..4)), N(Shr(cmd, 7) \cap (0..5)), N(Shr(cmd, 13) \cap (0..4))>>

SdsCmdIsWrite(cmd) == 1 \in cmd
SdsCmdHasStart(cmd) == 0 \in cmd

\* the result of a completed read: the data register masked to 16 bits
SdsResult_Unmasked(d) == ToInt(d)
SdsResult(d) == N(And32(d, W(65535)))

\* the test after the polling loop
SdsTimedOut_Never(i) == FALSE
SdsTimedOut(i) == i >= PollLimit

\* the condition of the polling loop
SdsLoopCond_Short(i) == i < PollLimit - 1
SdsLoopCond(i) == i < PollLimit

SdsRd(reg) == [k |-> "r", reg |-> reg, val |-> sw_r32(reg)]
SdsWr(reg, val) == [k |-> "w", reg |-> reg, val |-> val]

\* sw_w32 as issued by an access function: a command word with the start bit
\* starts the engine
SdsWrite(val, reg) ==
    /\ swreg' = sw_w32(val, reg, swreg)
    /\ sdsTrace' = Append(sdsTrace, SdsWr(reg, val))
    /\ IF reg \in SdsCmdRegs /\ SdsCmdHasStart(val)
       THEN hwBusy' = TRUE /\ hwPending' = val
       ELSE UNCHANGED <<hwBusy, hwPending>>

\* the engine finishes the command: a read loads the data register, a write
\* stores its low half; the busy bit clears
HwComplete ==
    /\ hwBusy
    /\ sdsPc # "done"
    /\ hwBusy' = FALSE
    /\ LET a == SdsCmdAddr(hwPending)
           d == SdsDataReg(family)
       IN IF SdsCmdIsWrite(hwPending)
          THEN /\ sdsMem' = [sdsMem EXCEPT ![a] = N(swreg[d] \cap Bits16)]
               /\ UNCHANGED swreg
          ELSE /\ \E hi \in SdsHighHalf :
                     swreg' = sw_w32(Shl(W(hi), 16) \cup W(sdsMem[a]), d, swreg)
               /\ UNCHANGED sdsMem
    /\ UNCHANGED <<family, hwPending, sdsFn, sdsArg, sdsPc, sdsI, sdsRet, sdsTrace>>
    /\ UNCHANGED notSds

\* lines 285-288 and 326-329: the read command is issued
SdsReadIssue(fn) ==
    /\ sdsFn = fn /\ sdsPc = "entry"
    /\ SdsWrite(SdsCmdWord(sdsArg.a, 1), SdsCmdReg(family))
    /\ sdsI' = 0
    /\ sdsPc' = "poll"
    /\ UNCHANGED <<family, sdsMem, sdsFn, sdsArg, sdsRet>>
    /\ UNCHANGED notSds

\* one iteration of for (i = 0; i < 100; i++) { if (!(sw_r32(cmd) & 1)) break; mdelay(1); }
SdsPoll(fn) ==
    /\ sdsFn = fn /\ sdsPc = "poll"
    /\ SdsLoopCond(sdsI)
    /\ sdsTrace' = Append(sdsTrace, SdsRd(SdsCmdReg(family)))
    /\ IF And32(sw_r32(SdsCmdReg(family)), W(1)) = {}
       THEN sdsPc' = "after" /\ sdsI' = sdsI
       ELSE sdsPc' = "poll" /\ sdsI' = sdsI + 1
    /\ UNCHANGED <<family, swreg, hwBusy, hwPending, sdsMem, sdsFn, sdsArg, sdsRet>>
    /\ UNCHANGED notSds

SdsLoopLeft == sdsPc = "after" \/ (sdsPc = "poll" /\ ~SdsLoopCond(sdsI))

\* lines 296-300 and 337-341
SdsReadReturn(fn) ==
    /\ sdsFn = fn /\ SdsLoopLeft
    /\ IF SdsTimedOut(sdsI)
       THEN /\ sdsRet' = -EIO
            /\ UNCHANGED sdsTrace
       ELSE /\ sdsRet' = SdsResult(sw_r32(SdsDataReg(family)))
            /\ sdsTrace' = Append(sdsTrace, SdsRd(SdsDataReg(family)))
    /\ sdsPc' = "done"
    /\ UNCHANGED <<family, swreg, hwBusy, hwPending, sdsMem, sdsFn, sdsArg, sdsI>>
    /\ UNCHANGED notSds

\* lines 317-320 and 363-366
SdsWriteReturn(fn) ==
    /\ sdsFn = fn /\ SdsLoopLeft
    /\ sdsRet' = IF SdsTimedOut(sdsI) THEN -EIO ELSE 0
    /\ sdsPc' = "done"
    /\ UNCHANGED <<family, swreg, hwBusy, hwPending, sdsMem, sdsFn, sdsArg, sdsI, sdsTrace>>
    /\ UNCHANGED notSds

\* lines 308-309: the data register is written; cmd is computed and not written
rtl930x_write_sds_phy_issue ==
    /\ sdsFn = "rtl930x_write_sds_phy" /\ sdsPc = "entry"
    /\ SdsWrite(W(sdsArg.v), "RTL930X_SDS_INDACS_DATA")
    /\ sdsI' = 0
    /\ sdsPc' = "poll"
    /\ UNCHANGED <<family, sdsMem, sdsFn, sdsArg, sdsRet>>
    /\ UNCHANGED notSds

\* lines 349-350: the address is written to the command register without start
rtl931x_write_sds_phy_addr ==
    /\ sdsFn = "rtl931x_write_sds_phy" /\ sdsPc = "entry"
    /\ SdsWrite(SdsCmdWord(sdsArg.a, 0), "RTL931X_SERDES_INDRT_ACCESS_CTRL")
    /\ sdsPc' = "data"
    /\ UNCHANGED <<family, sdsMem, sdsFn, sdsArg, sdsI, sdsRet>>
    /\ UNCHANGED notSds

\* line 352
rtl931x_write_sds_phy_data ==
    /\ sdsFn = "rtl931x_write_sds_phy" /\ sdsPc = "data"
    /\ SdsWrite(W(sdsArg.v), "RTL931X_SERDES_INDRT_DATA_CTRL")
    /\ sdsPc' = "start"
    /\ UNCHANGED <<family, sdsMem, sdsFn, sdsArg, sdsI, sdsRet>>
    /\ UNCHANGED notSds

\* lines 354-355: cmd = sw_r32(ctrl) | 0x3; sw_w32(cmd, ctrl)
rtl931x_write_sds_phy_start ==
    /\ sdsFn = "rtl931x_write_sds_phy" /\ sdsPc = "start"
    /\ LET c == sw_r32("RTL931X_SERDES_INDRT_ACCESS_CTRL")
           cmd == Or32(c, W(3))
       IN /\ swreg' = sw_w32(cmd, "RTL931X_SERDES_INDRT_ACCESS_CTRL", swreg)
          /\ sdsTrace' = sdsTrace \o <<SdsRd("RTL931X_SERDES_INDRT_ACCESS_CTRL"),
                                       SdsWr("RTL931X_SERDES_INDRT_ACCESS_CTRL", cmd)>>
          /\ hwBusy' = TRUE
          /\ hwPending' = cmd
    /\ sdsI' = 0
    /\ sdsPc' = "poll"
    /\ UNCHANGED <<family, sdsMem, sdsFn, sdsArg, sdsRet>>
    /\ UNCHANGED notSds

SwRegsZero == [r \in SwRegs |-> {}]

\* the SerDes register contents before the access
SdsMemInit(seed) ==
    [a \in SdsAddrs |-> (seed + 4369 * (4 * a[1] + a[2] + a[3] - 2)) % 65536]

\* no polling operation, resp. no EEE or medium operation, is running
PollOff ==
    /\ poll_lock = 0
    /\ pPc = [t \in {1, 2} |-> "off"]
    /\ pPort = [t \in {1, 2} |-> 0]
    /\ pSaved = [t \in {1, 2} |-> {}]
    /\ pPre = [t \in {1, 2} |-> swreg]
    /\ poll0 = swreg

EeeOff ==
    /\ phyMem = <<>>
    /\ phyFill = {}
    /\ eOp = "none"
    /\ ePort = 0
    /\ eArg = FALSE
    /\ ePc = "off"
    /\ ePollState = {}
    /\ eLog = <<>>
    /\ eRet = 0

FwOff ==
    /\ fwAvail = FALSE
    /\ fwOrig = <<>>
    /\ fwData = <<>>
    /\ fwPc = "off"
    /\ fwSum = {}
    /\ fwReads = {}
    /\ fwH = "NULL"
    /\ fwHeld = FALSE

CfgOff ==
    /\ phyFailAt = 0
    /\ phyReadyAt = <<>>
    /\ cOp = "none"
    /\ cMac = 0
    /\ cPc = "off"
    /\ cVal = {}
    /\ cLog = <<>>
    /\ cStage = <<>>
    /\ cSw = <<>>
    /\ cWhy = ""
    /\ cRet = 0

DispOff ==
    /\ dFn = "none"
    /\ dArg = <<>>
    /\ dVal = {}
    /\ dCalls = <<>>
    /\ dRet = 0
    /\ dPc = "off"

SerOff ==
    /\ serOp = "none"
    /\ serArg = <<>>
    /\ serEnv = <<>>
    /\ serSt = <<>>
    /\ serPc = "off"
    /\ serI = 0
    /\ serRet = {}

StatOff ==
    /\ phydev = <<>>
    /\ rsLocal = <<>>

ConcOff ==
    /\ ccFn = <<>>
    /\ ccArg = <<>>
    /\ ccPc = <<>>
    /\ ccI = <<>>
    /\ ccCmd = <<>>
    /\ ccRet = <<>>
    /\ ccTrace = <<>>

HeapOff == heap = <<>>

S839Off ==
    /\ soc_id = 0
    /\ xsg = <<>>
    /\ r9Fn = "none"
    /\ r9Arg = <<>>
    /\ r9Ret = 0
    /\ r9Acc = <<>>
    /\ r9Pc = "off"

GetOff == eGet = <<>>

LateOff ==
    /\ S839Off
    /\ GetOff

MoreOff ==
    /\ DispOff
    /\ SerOff
    /\ StatOff
    /\ ConcOff
    /\ HeapOff
    /\ LateOff

SdsInit ==
    /\ sdsFn \in SdsFns
    /\ family = SdsFamily(sdsFn)
    /\ sdsArg \in [a : SdsAddrs, v : SdsVals]
    /\ hwBusy \in BOOLEAN
    /\ hwPending = SdsCmdWord(<<0, 0, 2>>, 1)
    /\ swreg = [SwRegsZero EXCEPT ![SdsCmdReg(family)] = hwPending]
    /\ \E seed \in SdsSeeds : sdsMem = SdsMemInit(seed)
    /\ sdsPc = "entry"
    /\ sdsI = 0
    /\ sdsRet = 0
    /\ sdsTrace = <<>>
    /\ PollOff
    /\ EeeOff
    /\ FwOff
    /\ CfgOff
    /\ MoreOff

SdsNext ==
    \/ \E fn \in {"rtl930x_read_sds_phy", "rtl931x_read_sds_phy"} : SdsReadIssue(fn)
    \/ \E fn \in SdsFns : SdsPoll(fn)
    \/ \E fn \in {"rtl930x_read_sds_phy", "rtl931x_read_sds_phy"} : SdsReadReturn(fn)
    \/ \E fn \in {"rtl930x_write_sds_phy", "rtl931x_write_sds_phy"} : SdsWriteReturn(fn)
    \/ rtl930x_write_sds_phy_issue
    \/ rtl931x_write_sds_phy_addr
    \/ rtl931x_write_sds_phy_data
    \/ rtl931x_write_sds_phy_start
    \/ HwComplete

SpecSds == SdsInit /\ [][SdsNext]_vars

----------------------------------------------------------------------------
(* The polling lock: disable_polling, resume_polling *)

Threads == {1, 2}

Bits64 == 0..63

\* the ports of each family that take part in the checks
PollPorts(f) ==
    IF f = RTL8390_FAMILY_ID THEN {0, 31, 32, 51} ELSE {0, 8, 27}

\* the polling masks the registers may hold at the start, as sets of enabled ports
PollMasks(f) ==
    IF f = RTL8390_FAMILY_ID
    THEN {{}, 0..51, {p \in 0..51 : p % 2 = 0}}
    ELSE {{}, 0..27, {p \in 0..27 : p % 2 = 0}}

\* what an uninitialised saved_state may hold
PollUninit == {{}, Bits64}

\* RTL839X_SMI_PORT_POLLING_CTRL + off
Reg839x(off) ==
    IF off = 0 THEN "RTL839X_SMI_PORT_POLLING_CTRL"
    ELSE "RTL839X_SMI_PORT_POLLING_CTRL_4"

\* the polling registers written with a mask of enabled ports
PollRegsOf(f, mask) ==
    IF f = RTL8380_FAMILY_ID
        THEN [SwRegsZero EXCEPT !["RTL838X_SMI_POLL_CTRL"] = mask]
    ELSE IF f = RTL8390_FAMILY_ID
        THEN [SwRegsZero EXCEPT !["RTL839X_SMI_PORT_POLLING_CTRL"] = Trunc32(mask),
                                !["RTL839X_SMI_PORT_POLLING_CTRL_4"] = Shr(mask, 32)]
    ELSE IF f = RTL9300_FAMILY_ID
        THEN [SwRegsZero EXCEPT !["RTL930X_SMI_POLL_CTRL"] = mask]
    ELSE SwRegsZero

\* lines 115-134, the reads: saved_state as disable_polling leaves it
PollRead(f, regs, uninit) ==
    IF f = RTL8380_FAMILY_ID THEN regs["RTL838X_SMI_POLL_CTRL"]
    ELSE IF f = RTL8390_FAMILY_ID
        THEN Or32(Shl(regs[Reg839x(4)], 32), regs[Reg839x(0)])
    ELSE IF f = RTL9300_FAMILY_ID THEN regs["RTL930X_SMI_POLL_CTRL"]
    ELSE uninit

\* lines 115-134, the writes: the port's bit is cleared
PollClear_LowWord(f, port, regs) ==
    IF f = RTL8380_FAMILY_ID
        THEN sw_w32_mask(BIT(port), {}, "RTL838X_SMI_POLL_CTRL", regs)
    ELSE IF f = RTL8390_FAMILY_ID
        THEN sw_w32_mask(BIT(port % 32), {}, Reg839x(0), regs)
    ELSE IF f = RTL9300_FAMILY_ID
        THEN sw_w32_mask(BIT(port), {}, "RTL930X_SMI_POLL_CTRL", regs)
    ELSE regs

\* as if RTL9310 were handled like RTL9300
PollClear_Rtl931x(f, port, regs) ==
    IF f = RTL8380_FAMILY_ID
        THEN sw_w32_mask(BIT(port), {}, "RTL838X_SMI_POLL_CTRL", regs)
    ELSE IF f = RTL8390_FAMILY_ID
        THEN sw_w32_mask(BIT(port % 32), {}, Reg839x((port \div 32) * 4), regs)
    ELSE IF f \in {RTL9300_FAMILY_ID, RTL9310_FAMILY_ID}
        THEN sw_w32_mask(BIT(port), {}, "RTL930X_SMI_POLL_CTRL", regs)
    ELSE regs

PollClear(f, port, regs) ==
    IF f = RTL8380_FAMILY_ID
        THEN sw_w32_mask(BIT(port), {}, "RTL838X_SMI_POLL_CTRL", regs)
    ELSE IF f = RTL8390_FAMILY_ID
        THEN sw_w32_mask(BIT(port % 32), {}, Reg839x((port \div 32) * 4), regs)
    ELSE IF f = RTL9300_FAMILY_ID
        THEN sw_w32_mask(BIT(port), {}, "RTL930X_SMI_POLL_CTRL", regs)
    ELSE regs

\* lines 145-159: the saved state is written back
PollRestore_LowWord(f, saved, regs) ==
    IF f = RTL8380_FAMILY_ID THEN sw_w32(saved, "RTL838X_SMI_POLL_CTRL", regs)
    ELSE IF f = RTL8390_FAMILY_ID THEN sw_w32(saved, Reg839x(0), regs)
    ELSE IF f = RTL9300_FAMILY_ID THEN sw_w32(saved, "RTL930X_SMI_POLL_CTRL", regs)
    ELSE regs

PollRestore(f, saved, regs) ==
    IF f = RTL8380_FAMILY_ID THEN sw_w32(saved, "RTL838X_SMI_POLL_CTRL", regs)
    ELSE IF f = RTL8390_FAMILY_ID
        THEN sw_w32(saved, Reg839x(0), sw_w32(Shr(saved, 32), Reg839x(4), regs))
    ELSE IF f = RTL9300_FAMILY_ID THEN sw_w32(saved, "RTL930X_SMI_POLL_CTRL", regs)
    ELSE regs

\* mutex_lock(&poll_lock) returns to thread t only when no thread holds the lock
MutexFree_NoWait(t) == TRUE
MutexFree(t) == poll_lock = 0

\* line 113
disable_polling_lock(t) ==
    /\ pPc[t] = "idle"
    /\ MutexFree(t)
    /\ poll_lock' = t
    /\ pPre' = [pPre EXCEPT ![t] = swreg]
    /\ pPc' = [pPc EXCEPT ![t] = "d_read"]
    /\ UNCHANGED <<family, swreg, pPort, pSaved, poll0>>
    /\ UNCHANGED notPoll

\* lines 117, 121-123, 128
disable_polling_read(t) ==
    /\ pPc[t] = "d_read"
    /\ \E u \in PollUninit :
           pSaved' = [pSaved EXCEPT ![t] = PollRead(family, swreg, u)]
    /\ pPc' = [pPc EXCEPT ![t] = "d_clear"]
    /\ UNCHANGED <<family, swreg, poll_lock, pPort, pPre, poll0>>
    /\ UNCHANGED notPoll

\* lines 118, 124-125, 129
disable_polling_clear(t) ==
    /\ pPc[t] = "d_clear"
    /\ swreg' = PollClear(family, pPort[t], swreg)
    /\ pPc' = [pPc EXCEPT ![t] = "d_unlock"]
    /\ UNCHANGED <<family, poll_lock, pPort, pSaved, pPre, poll0>>
    /\ UNCHANGED notPoll

\* lines 136-138
disable_polling_unlock(t) ==
    /\ pPc[t] = "d_unlock"
    /\ poll_lock' = 0
    /\ pPc' = [pPc EXCEPT ![t] = "disabled"]
    /\ UNCHANGED <<family, swreg, pPort, pSaved, pPre, poll0>>
    /\ UNCHANGED notPoll

\* line 143
resume_polling_lock(t) ==
    /\ pPc[t] = "disabled"
    /\ MutexFree(t)
    /\ poll_lock' = t
    /\ pPc' = [pPc EXCEPT ![t] = "r_write"]
    /\ UNCHANGED <<family, swreg, pPort, pSaved, pPre, poll0>>
    /\ UNCHANGED notPoll

\* lines 145-159
resume_polling_write(t) ==
    /\ pPc[t] = "r_write"
    /\ swreg' = PollRestore(family, pSaved[t], swreg)
    /\ pPc' = [pPc EXCEPT ![t] = "r_unlock"]
    /\ UNCHANGED <<family, poll_lock, pPort, pSaved, pPre, poll0>>
    /\ UNCHANGED notPoll

\* lines 161-163
resume_polling_unlock(t) ==
    /\ pPc[t] = "r_unlock"
    /\ poll_lock' = 0
    /\ pPc' = [pPc EXCEPT ![t] = "done"]
    /\ UNCHANGED <<family, swreg, pPort, pSaved, pPre, poll0>>
    /\ UNCHANGED notPoll

SdsOff ==
    /\ hwBusy = FALSE
    /\ hwPending = {}
    /\ sdsMem = SdsMemInit(0)
    /\ sdsFn = "none"
    /\ sdsArg = [a |-> <<0, 0, 2>>, v |-> 0]
    /\ sdsPc = "off"
    /\ sdsI = 0
    /\ sdsRet = 0
    /\ sdsTrace = <<>>

PollInit ==
    /\ family \in Families
    /\ \E m \in PollMasks(family) : swreg = PollRegsOf(family, m)
    /\ poll_lock = 0
    /\ pPc = [t \in Threads |-> "idle"]
    /\ pPort \in [Threads -> PollPorts(family)]
    /\ pSaved \in [Threads -> PollUninit]
    /\ pPre = [t \in Threads |-> swreg]
    /\ poll0 = swreg
    /\ SdsOff
    /\ EeeOff
    /\ FwOff
    /\ CfgOff
    /\ MoreOff

PollNext ==
    \E t \in Threads :
        \/ disable_polling_lock(t)
        \/ disable_polling_read(t)
        \/ disable_polling_clear(t)
        \/ disable_polling_unlock(t)
        \/ resume_polling_lock(t)
        \/ resume_polling_write(t)
        \/ resume_polling_unlock(t)

SpecPoll == PollInit /\ [][PollNext]_vars

----------------------------------------------------------------------------
(* PHY register access: read_phy, write_phy, read_mmd_phy, write_mmd_phy *)

Bit(n, w) == n \in w

SupportedFamilies == {RTL8380_FAMILY_ID, RTL8390_FAMILY_ID, RTL9300_FAMILY_ID,
                      RTL9310_FAMILY_ID}

\* the registers behind the family back ends, as plain memory
MemGet(mem, k) == IF k \in DOMAIN mem THEN mem[k] ELSE phyFill
MemPut(mem, k, v) == [x \in DOMAIN mem \cup {k} |-> IF x = k THEN v ELSE mem[x]]

\* the patch status (page 0xb80, register 0x10) of a port shows ready (0x40)
\* from its phyReadyAt-th read on; every other register is plain memory
PhyValue(st, k) ==
    IF k[1] = "phy" /\ k[3] = 2944 /\ k[4] = 16 /\ k[2] \in DOMAIN phyReadyAt
    THEN IF Cardinality({i \in DOMAIN st.log :
                 st.log[i].e = "read_phy" /\ st.log[i].k = k}) + 1 >= phyReadyAt[k[2]]
         THEN {6} ELSE {}
    ELSE MemGet(st.mem, k)

\* An operation's progress st: the PHY memory, the log of its calls, and val, the
\* variable its reads store to.  The dispatchers return -1 and touch nothing when
\* no family matches.  A call whose back end fails is logged and has no effect.
PhyAccess(st, kind, k, v) ==
    The({IF family \notin SupportedFamilies THEN s
         ELSE IF Len(s.log) + 1 = phyFailAt
             THEN [s EXCEPT !.log = Append(@, [e |-> kind, k |-> k, v |-> v \cap Bits16])]
         ELSE IF kind \in {"read_phy", "read_mmd_phy"}
             THEN The({[s EXCEPT !.val = x,
                                 !.log = Append(@, [e |-> kind, k |-> k, v |-> x])] :
                       x \in {PhyValue(s, k)}})
         ELSE [s EXCEPT !.mem = MemPut(@, k, v \cap Bits16),
                        !.log = Append(@, [e |-> kind, k |-> k, v |-> v \cap Bits16])] :
         s \in {st}})

read_phy(st, port, page, reg) == PhyAccess(st, "read_phy", <<"phy", port, page, reg>>, {})
write_phy(st, port, page, reg, v) == PhyAccess(st, "write_phy", <<"phy", port, page, reg>>, v)
read_mmd_phy(st, port, dev, reg) == PhyAccess(st, "read_mmd_phy", <<"mmd", port, dev, reg>>, {})
write_mmd_phy(st, port, dev, reg, v) == PhyAccess(st, "write_mmd_phy", <<"mmd", port, dev, reg>>, v)

EeeSt == [mem |-> phyMem, log |-> eLog, val |-> {}]

----------------------------------------------------------------------------
(* EEE and medium operations *)

ENOTSUPP == 524

EeeOps == {"rtl8226_set_eee", "rtl8214fc_set_eee", "rtl8218b_set_eee",
           "rtl8218d_set_eee", "rtl8214fc_set_port"}

PhyFills == {{}, Bits16, {12}, {11}}

\* static int reg[] = {16, 19, 20, 21}
MediaReg(mac) == <<16, 19, 20, 21>>[(mac % 4) + 1]

\* lines 1054-1066: the progress after the accesses, and the result
rtl8380_rtl8214fc_media_is_fibre(st, mac) ==
    LET base == mac - (mac % 4)
        s1 == write_phy(st, base, 4095, 29, W(8))
        s2 == read_phy(s1, base, 614, MediaReg(mac))
        s3 == write_phy(s2, base, 4095, 29, W(0))
    IN [st |-> s3, fibre |-> ~Bit(11, s2.val)]

\* the routine without `val &= ~(1 << 11)` in the fibre branch
rtl8380_rtl8214fc_media_set_NoClear(st, mac, set_fibre) ==
    LET base == mac - (mac % 4)
        s1 == write_phy(st, base, 4095, 29, W(8))
        s2 == read_phy(s1, base, 614, MediaReg(mac))
        s3 == write_phy(s2, base, 4095, 29, W(8))
        s4 == write_phy(s3, base, 614, MediaReg(mac),
                        IF set_fibre THEN s2.val \cup BIT(10)
                        ELSE s2.val \cup BIT(10) \cup BIT(11))
    IN write_phy(s4, base, 4095, 29, W(0))

\* lines 996-1052
rtl8380_rtl8214fc_media_set(st, mac, set_fibre) ==
    LET base == mac - (mac % 4)
        s1 == write_phy(st, base, 4095, 29, W(8))
        s2 == read_phy(s1, base, 614, MediaReg(mac))
        val == s2.val
        \* media & 0x2: copper is powered off, else fibre
        s3 == write_phy(s2, base, 4095, 29, IF Bit(11, val) THEN W(1) ELSE W(3))
        s4 == read_phy(s3, base, 2624, 16)
        s5 == IF ~Bit(11, s4.val)
              THEN write_phy(s4, base, 2624, 16, s4.val \cup BIT(11))
              ELSE s4
        nval == IF set_fibre THEN (val \cup BIT(10)) \ BIT(11)
                ELSE val \cup BIT(10) \cup BIT(11)
        s6 == write_phy(s5, base, 4095, 29, W(8))
        s7 == write_phy(s6, base, 614, MediaReg(mac), nval)
        s8 == write_phy(s7, base, 4095, 29, W(0))
        s9 == write_phy(s8, base, 4095, 29, IF set_fibre THEN W(3) ELSE W(1))
        s10 == read_phy(s9, base, 2624, 16)
        s11 == IF Bit(11, s10.val)
               THEN write_phy(s10, base, 2624, 16, s10.val \ BIT(11))
               ELSE s10
    IN write_phy(s11, base, 4095, 29, W(0))

\* lines 627-650
rtl8226_set_eee_body(st, port, enabled) ==
    LET s1 == read_mmd_phy(st, port, 7, 0)
        s2 == read_mmd_phy(s1, port, 7, 60)
        s3 == write_mmd_phy(s2, port, 7, 60,
                            IF enabled THEN s2.val \cup W(6) ELSE s2.val \cap W(6))
        s4 == read_mmd_phy(s3, port, 7, 62)
        s5 == write_mmd_phy(s4, port, 7, 62,
                            IF enabled THEN s4.val \cup W(1) ELSE s4.val \cap W(1))
        s6 == read_mmd_phy(s5, port, 31, 41984)
    IN write_mmd_phy(s6, port, 31, 41984, s6.val \cup BIT(9))

\* Restart AN if enabled: lines 1121-1125, 1222-1227, 1290-1294
RestartAn(st, port, an_enabled) ==
    IF an_enabled
    THEN LET s1 == read_phy(st, port, 0, 0)
         IN write_phy(s1, port, 0, 0, s1.val \cup BIT(9))
    ELSE st

\* lines 1198-1230
rtl8214fc_set_eee_body(st, port, enabled) ==
    LET s1 == write_phy(st, port, 2626, 29, W(1))
        s2 == read_phy(s1, port, 0, 0)
        an_enabled == Bit(12, s2.val)
        s3 == read_phy(s2, port, 2627, 25)
        s4 == write_phy(s3, port, 2627, 25, s3.val \ BIT(5))
        s5 == write_phy(s4, port, 7, 60, IF enabled THEN W(6) ELSE W(0))
        s6 == read_phy(s5, port, 2626, 20)
        s7 == write_phy(s6, port, 2626, 20,
                        IF enabled THEN s6.val \cup BIT(7) ELSE s6.val \ BIT(7))
        s8 == RestartAn(s7, port, an_enabled)
    IN write_phy(s8, port, 2626, 29, W(0))

\* lines 1262-1297
rtl8218b_set_eee_body(st, port, enabled) ==
    LET s1 == write_phy(st, port, 0, 30, W(1))
        s2 == read_phy(s1, port, 0, 0)
        an_enabled == Bit(12, s2.val)
        s3 == write_phy(s2, port, 0, 13, W(7))
        s4 == write_phy(s3, port, 0, 14, W(60))
        s5 == write_phy(s4, port, 0, 13, IF enabled THEN W(16391) ELSE W(7))
        s6 == write_phy(s5, port, 0, 14, IF enabled THEN W(6) ELSE W(0))
        s7 == read_phy(s6, port, 2627, 25)
        s8 == write_phy(s7, port, 2627, 25,
                        IF enabled THEN s7.val \cup BIT(4) ELSE s7.val \ BIT(4))
        s9 == RestartAn(s8, port, an_enabled)
    IN write_phy(s9, port, 2626, 30, W(0))

\* lines 1095-1129
rtl8218d_eee_set(st, port, enable) ==
    LET s1 == write_phy(st, port, 2626, 30, W(1))
        s2 == read_phy(s1, port, 0, 0)
        an_enabled == Bit(12, s2.val)
        s3 == read_mmd_phy(s2, port, 7, 60)
        s4 == write_mmd_phy(s3, port, 7, 60, IF enable THEN W(6) ELSE W(0))
        s5 == read_phy(s4, port, 2626, 20)
        s6 == write_phy(s5, port, 2626, 20,
                        IF enable THEN s5.val \cup BIT(7) ELSE s5.val \ BIT(7))
        s7 == RestartAn(s6, port, an_enabled)
    IN write_phy(s7, port, 2626, 30, W(0))

\* the part of a set_eee operation between disable_polling and resume_polling
EeeBody(op, st, port, enabled) ==
    IF op = "rtl8226_set_eee" THEN rtl8226_set_eee_body(st, port, enabled)
    ELSE IF op = "rtl8214fc_set_eee" THEN rtl8214fc_set_eee_body(st, port, enabled)
    ELSE IF op = "rtl8218b_set_eee" THEN rtl8218b_set_eee_body(st, port, enabled)
    ELSE rtl8218d_eee_set(st, port, enabled)

\* poll_state is a u32 in rtl8214fc_set_eee (line 1184) and a u64 elsewhere
EeePollStateBits(op) == IF op = "rtl8214fc_set_eee" THEN Bits32 ELSE Bits64

\* lines 1191-1194: the operation starts with the medium test
rtl8214fc_set_eee_check ==
    /\ eOp = "rtl8214fc_set_eee" /\ ePc = "entry"
    /\ LET r == rtl8380_rtl8214fc_media_is_fibre(EeeSt, ePort)
       IN /\ phyMem' = r.st.mem
          /\ eLog' = r.st.log
          /\ IF r.fibre
             THEN ePc' = "done" /\ eRet' = -ENOTSUPP
             ELSE ePc' = "disable" /\ eRet' = eRet
    /\ UNCHANGED <<family, swreg, phyFill, eOp, ePort, eArg, ePollState>>
    /\ UNCHANGED notEee

\* poll_state = disable_polling(port): lines 625, 1196, 1260, 1312
EeeDisable ==
    /\ eOp \in EeeOps \ {"rtl8214fc_set_port"}
    /\ \/ ePc = "disable"
       \/ ePc = "entry" /\ eOp # "rtl8214fc_set_eee"
    /\ swreg' = PollClear(family, ePort, swreg)
    /\ \E u \in PollUninit :
           ePollState' = PollRead(family, swreg, u) \cap EeePollStateBits(eOp)
    /\ eLog' = Append(eLog, [e |-> "disable_polling", k |-> ePort, v |-> {}])
    /\ ePc' = "body"
    /\ UNCHANGED <<family, phyMem, phyFill, eOp, ePort, eArg, eRet>>
    /\ UNCHANGED notEee

\* the register accesses of the operation
EeeRun ==
    /\ eOp \in EeeOps \ {"rtl8214fc_set_port"}
    /\ ePc = "body"
    /\ LET s == EeeBody(eOp, EeeSt, ePort, eArg)
       IN phyMem' = s.mem /\ eLog' = s.log
    /\ ePc' = "resume"
    /\ UNCHANGED <<family, swreg, phyFill, eOp, ePort, eArg, ePollState, eRet>>
    /\ UNCHANGED notEee

\* resume_polling(poll_state); return 0
EeeResume ==
    /\ eOp \in EeeOps \ {"rtl8214fc_set_port"}
    /\ ePc = "resume"
    /\ swreg' = PollRestore(family, ePollState, swreg)
    /\ eLog' = Append(eLog, [e |-> "resume_polling", k |-> ePort, v |-> ePollState])
    /\ ePc' = "done"
    /\ eRet' = 0
    /\ UNCHANGED <<family, phyMem, phyFill, eOp, ePort, eArg, ePollState>>
    /\ UNCHANGED notEee

\* lines 1068-1077
rtl8214fc_set_port ==
    /\ eOp = "rtl8214fc_set_port" /\ ePc = "entry"
    /\ LET s == rtl8380_rtl8214fc_media_set(EeeSt, ePort, eArg)
       IN phyMem' = s.mem /\ eLog' = s.log
    /\ ePc' = "done"
    /\ eRet' = 0
    /\ UNCHANGED <<family, swreg, phyFill, eOp, ePort, eArg, ePollState>>
    /\ UNCHANGED notEee

EeeInit ==
    /\ family \in SupportedFamilies
    /\ \E m \in PollMasks(family) : swreg = PollRegsOf(family, m)
    /\ phyMem = <<>>
    /\ phyFill \in PhyFills
    /\ eOp \in EeeOps
    /\ ePort \in PollPorts(family)
    /\ eArg \in BOOLEAN
    /\ ePc = "entry"
    /\ ePollState \in {u \cap EeePollStateBits(eOp) : u \in PollUninit}
    /\ eLog = <<>>
    /\ eRet = 0
    /\ SdsOff
    /\ PollOff
    /\ FwOff
    /\ CfgOff
    /\ MoreOff

EeeNext ==
    \/ rtl8214fc_set_eee_check
    \/ EeeDisable
    \/ EeeRun
    \/ EeeResume
    \/ rtl8214fc_set_port

SpecEee == EeeInit /\ [][EeeNext]_vars

----------------------------------------------------------------------------
(* The firmware loader: rtl838x_request_fw *)

\* struct fw_header: magic, checksum and phy (u32 each), then parts[FwParts]
FwParts == 10
FwPartSize == 4
FwOffsetOf == [magic |-> 0, checksum |-> 4, phy |-> 8, parts |-> 12]
FwHeaderSize == FwOffsetOf.parts + FwParts * FwPartSize

\* bytes of patch data that follow the header in the images checked
MaxPayload == 4

\* the u32 at byte offset off of an image (big-endian, as on the SoC)
FwField(img, off) ==
    Shl(W(img[off + 1]), 24) \cup Shl(W(img[off + 2]), 16)
        \cup Shl(W(img[off + 3]), 8) \cup W(img[off + 4])

\* the image with the u32 at byte offset off set to w
FwSetField(img, off, w) ==
    SubSeq(img, 1, off)
        \o <<N(Shr(w, 24) \cap (0..7)), N(Shr(w, 16) \cap (0..7)),
             N(Shr(w, 8) \cap (0..7)), N(w \cap (0..7))>>
        \o SubSeq(img, off + 5, Len(img))

\* 0x83808380
FwMagic == FwField(<<131, 128, 131, 128>>, 0)

\* 0xEDB88320, the polynomial of crc32()
CrcPoly == {31, 30, 29, 27, 26, 24, 23, 21, 20, 19, 15, 9, 8, 5}

RECURSIVE CrcShift(_, _)
CrcShift(crc, n) ==
    IF n = 0 THEN crc
    ELSE The({CrcShift(IF 0 \in c THEN Xor32(Shr(c, 1), CrcPoly) ELSE Shr(c, 1), n - 1) :
              c \in {crc}})

\* the bytes data[lo..hi] in order; the range is halved so that the evaluation
\* nests only to the logarithm of its length
RECURSIVE CrcFrom(_, _, _, _)
CrcFrom(crc, data, lo, hi) ==
    IF lo > hi THEN crc
    ELSE IF lo = hi THEN CrcShift(Xor32(crc, W(data[lo])), 8)
    ELSE The({CrcFrom(c, data, (lo + hi) \div 2 + 1, hi) :
              c \in {CrcFrom(crc, data, lo, (lo + hi) \div 2)}})

\* crc32(seed, data, len) over the whole of data
crc32(seed, data) == The({CrcFrom(seed, d, 1, Len(d)) : d \in {data}})

\* line 686: ~crc32(0xFFFFFFFFU, fw->data, fw->size)
FwMyChecksum(data) == Not32(crc32(Bits32, data))

\* line 670
FwTooSmall(size) == size < FwHeaderSize

\* line 679
FwMagicOk_Always(data) == TRUE
FwMagicOk(data) == FwField(data, FwOffsetOf.magic) = FwMagic

\* lines 684-687: the checksum is computed with the field zeroed
FwChecksumOk(data) ==
    FwField(data, FwOffsetOf.checksum) = FwMyChecksum(FwSetField(data, FwOffsetOf.checksum, {}))

\* lines 666-668
rtl838x_request_fw_fetch ==
    /\ fwPc = "entry"
    /\ IF fwAvail
       THEN fwData' = fwOrig /\ fwPc' = "size"
       ELSE fwData' = fwData /\ fwPc' = "out"
    /\ fwHeld' = fwAvail
    /\ UNCHANGED <<family, swreg, fwAvail, fwOrig, fwSum, fwReads, fwH>>
    /\ UNCHANGED notFw

\* lines 670-674
rtl838x_request_fw_size ==
    /\ fwPc = "size"
    /\ fwPc' = IF FwTooSmall(Len(fwData)) THEN "out" ELSE "magic"
    /\ UNCHANGED <<family, swreg, fwAvail, fwOrig, fwData, fwSum, fwReads, fwH, fwHeld>>
    /\ UNCHANGED notFw

\* lines 676-682
rtl838x_request_fw_magic ==
    /\ fwPc = "magic"
    /\ fwReads' = fwReads \cup {"magic"}
    /\ fwPc' = IF FwMagicOk(fwData) THEN "checksum" ELSE "out"
    /\ UNCHANGED <<family, swreg, fwAvail, fwOrig, fwData, fwSum, fwH, fwHeld>>
    /\ UNCHANGED notFw

\* lines 684-694: on a mismatch the field is left zeroed, else it is restored
rtl838x_request_fw_checksum ==
    /\ fwPc = "checksum"
    /\ fwReads' = fwReads \cup {"checksum"}
    /\ fwSum' = FwField(fwData, FwOffsetOf.checksum)
    /\ IF FwChecksumOk(fwData)
       THEN /\ fwData' = fwData
            /\ fwH' = "h"
            /\ fwPc' = "done"
       ELSE /\ fwData' = FwSetField(fwData, FwOffsetOf.checksum, {})
            /\ fwH' = fwH
            /\ fwPc' = "out"
    /\ UNCHANGED <<family, swreg, fwAvail, fwOrig, fwHeld>>
    /\ UNCHANGED notFw

\* lines 695-697
rtl838x_request_fw_out ==
    /\ fwPc = "out"
    /\ fwH' = "NULL"
    /\ fwPc' = "done"
    /\ UNCHANGED <<family, swreg, fwAvail, fwOrig, fwData, fwSum, fwReads, fwHeld>>
    /\ UNCHANGED notFw

\* The images: a header with a good or a damaged magic, a phy tag, a part table
\* and patch bytes; the checksum field right, off by one bit or zero; then cut to
\* a size, or with one byte changed after the checksum was made.
FwSizes == {0, FwOffsetOf.checksum + 4, FwHeaderSize - 1, FwHeaderSize,
            FwHeaderSize + MaxPayload}
FwMagics == {<<131, 128, 131, 128>>, <<131, 128, 131, 129>>, <<0, 0, 0, 0>>}
FwSeeds == {1, 2}
FwDamage == {0, FwOffsetOf.phy + 1, FwHeaderSize + MaxPayload}

FwBody(magic, seed) ==
    [i \in 1..(FwHeaderSize + MaxPayload) |->
        IF i <= 4 THEN magic[i] ELSE (37 * i + seed) % 256]

FwSigned(img, sum) ==
    FwSetField(img, FwOffsetOf.checksum,
               IF sum = "right" THEN FwMyChecksum(FwSetField(img, FwOffsetOf.checksum, {}))
               ELSE IF sum = "bit" THEN Xor32(FwMyChecksum(FwSetField(img, FwOffsetOf.checksum, {})), {7})
               ELSE {})

FwDamaged(img, at) ==
    IF at = 0 THEN img ELSE [img EXCEPT ![at] = (img[at] + 1) % 256]

FwImages ==
    {SubSeq(FwDamaged(FwSigned(FwBody(mg, sd), sum), at), 1, sz) :
        mg \in FwMagics, sd \in FwSeeds, sum \in {"right", "bit", "zero"},
        at \in FwDamage, sz \in FwSizes}
    \cup {FwSigned(SubSeq(FwBody(mg, sd), 1, FwHeaderSize), "right") :
        mg \in FwMagics, sd \in FwSeeds}

FwInit ==
    /\ family = RTL8380_FAMILY_ID
    /\ swreg = SwRegsZero
    /\ fwAvail \in BOOLEAN
    /\ fwOrig \in FwImages
    /\ fwData = <<>>
    /\ fwPc = "entry"
    /\ fwSum = {}
    /\ fwReads = {}
    /\ fwH = "NULL"
    /\ fwHeld = FALSE
    /\ SdsOff
    /\ PollOff
    /\ EeeOff
    /\ CfgOff
    /\ MoreOff

FwNext ==
    \/ rtl838x_request_fw_fetch
    \/ rtl838x_request_fw_size
    \/ rtl838x_request_fw_magic
    \/ rtl838x_request_fw_checksum
    \/ rtl838x_request_fw_out

SpecFw == FwInit /\ [][FwNext]_vars

----------------------------------------------------------------------------
(* The configure routines: rtl8380_configure_int_rtl8218b,                   *)
(* rtl8380_configure_ext_rtl8218b, rtl8380_configure_rtl8214fc and           *)
(* rtl8380_configure_serdes                                                  *)

CfgOps == {"rtl8380_configure_int_rtl8218b", "rtl8380_configure_ext_rtl8218b",
           "rtl8380_configure_rtl8214fc", "rtl8380_configure_serdes"}

\* the ports of a package: for (p = 0; p < 8; p++), for (i = 0; i < 4; i++)
CfgPorts(op) == IF op = "rtl8380_configure_rtl8214fc" THEN 4 ELSE 8

\* the ID the probe expects: 0x6275, 0x6276
CfgChipId(op) == IF op = "rtl8380_configure_int_rtl8218b" THEN 25205 ELSE 25206

\* h->phy of the image the routine is made for: 0x83800000 (the SerDes patch
\* is in the file of the internal PHY), 0x8218b000, 0x8214fc00
CfgTagBytes(op) ==
    IF op \in {"rtl8380_configure_int_rtl8218b", "rtl8380_configure_serdes"}
    THEN <<131, 128, 0, 0>>
    ELSE IF op = "rtl8380_configure_ext_rtl8218b" THEN <<130, 24, 176, 0>>
    ELSE <<130, 20, 252, 0>>

\* the byte offset in the image of list[j], for the list that
\* h->parts[part].start points to
CfgWordAt(img, part, j) ==
    FwHeaderSize + N(FwField(img, FwOffsetOf.parts + FwPartSize * part)) + 4 * j

\* the u32 list[j]: nothing bounds part's start or j, and a word that is not
\* inside the image is whatever the memory after the buffer holds
CfgWord(img, part, j) ==
    The({IF off + 4 <= Len(img) THEN N(FwField(img, off))
         ELSE IF (off - Len(img)) \div 4 + 1 \in DOMAIN heap
              THEN heap[(off - Len(img)) \div 4 + 1] ELSE 0 :
         off \in {CfgWordAt(img, part, j)}})

\* the bytes of a u32
FwBytes(n) == <<(n \div 16777216) % 256, (n \div 65536) % 256, (n \div 256) % 256, n % 256>>

RECURSIVE FwWords(_)
FwWords(ws) == IF ws = <<>> THEN <<>> ELSE FwBytes(Head(ws)) \o FwWords(Tail(ws))

\* Images for the configure routines: the header, then a list of triples and two
\* lists of pairs, each closed by an all-zero entry.  Triples: with offsets 1 and
\* 2; with offset 0 first; with a page select of 0x260 and register 0x13.
\* Pairs: plain; with a (0, value) entry in the middle.
CfgTriples ==
    {<<1, 30, 8, 2, 27, 4, 0, 0, 0>>,
     <<0, 30, 8, 1, 27, 4, 0, 0, 0>>,
     <<1, 31, 608, 1, 19, 57599, 0, 0, 0>>}
CfgPairs ==
    {<<31, 2946, 16, 19, 0, 0, 0, 0>>,
     <<31, 2946, 0, 5, 16, 19, 0, 0>>}
CfgTail == <<27, 7, 0, 0>>

\* h->parts[0..9].start: the triples, the first pairs, the last pairs
CfgParts == <<0, 36, 68, 68, 68, 68, 68, 68, 36, 68>>

CfgImage(tag, triples, pairs) ==
    FwSigned(<<131, 128, 131, 128>> \o <<0, 0, 0, 0>> \o tag \o FwWords(CfgParts)
                 \o FwWords(triples) \o FwWords(pairs) \o FwWords(CfgTail),
             "right")

\* Images with a valid magic, checksum and target whose lists leave the image:
\* every region offset is the first byte after the image (84 bytes of lists
\* follow the header); or the lists, at offset 0, have no closing entry
CfgOverrunImages(op) ==
    {FwSigned(<<131, 128, 131, 128>> \o <<0, 0, 0, 0>> \o CfgTagBytes(op)
                  \o FwWords([i \in 1..FwParts |-> 84])
                  \o FwWords(<<1, 30, 8, 2, 27, 4, 0, 0, 0>>)
                  \o FwWords(<<31, 2946, 16, 19, 0, 0, 0, 0>>) \o FwWords(CfgTail),
              "right"),
     FwSigned(<<131, 128, 131, 128>> \o <<0, 0, 0, 0>> \o CfgTagBytes(op)
                  \o FwWords([i \in 1..FwParts |-> 0])
                  \o FwWords(<<1, 30, 8, 2, 27, 4>>),
              "right")}

\* what the memory after the buffer holds: zeros, or two more entries first
CfgHeaps == {<<>>, <<1, 31, 2946, 2, 16, 19>>}

CfgGoodImages ==
    {CfgImage(CfgTagBytes(op), t, pr) : op \in CfgOps \ {"rtl8380_configure_serdes"},
                                        t \in CfgTriples, pr \in CfgPairs}

\* images that rtl838x_request_fw refuses: short, wrong magic, wrong checksum
CfgBadImages ==
    {<<131, 128, 131>>,
     FwSigned(FwBody(<<131, 128, 131, 129>>, 1), "right"),
     FwSigned(FwBody(<<131, 128, 131, 128>>, 1), "bit")}

\* lines 166-175
rtl8380_int_phy_on_off(st, mac, on) ==
    The({write_phy(s1, mac, 0, 0, IF on THEN s1.val \ BIT(11) ELSE s1.val \cup BIT(11)) :
         s1 \in {read_phy(st, mac, 0, 0)}})

\* lines 177-196
rtl8380_rtl8214fc_on_off(st, mac, on) ==
    The({The({write_phy(s5, mac, 2624, 16,
                        IF on THEN s5.val \ BIT(11) ELSE s5.val \cup BIT(11)) :
              s5 \in {read_phy(write_phy(write_phy(s2, mac, 0, 16,
                                                  IF on THEN s2.val \ BIT(11)
                                                  ELSE s2.val \cup BIT(11)),
                                        mac, 4095, 30, W(1)),
                              mac, 0, 16)}}) :
         s2 \in {read_phy(write_phy(st, mac, 4095, 30, W(3)), mac, 0, 16)}})

\* lines 198-204
rtl8380_phy_reset(st, mac) ==
    The({write_phy(s1, mac, 0, 0, s1.val \cup BIT(15)) : s1 \in {read_phy(st, mac, 0, 0)}})

\* a run of write_phy calls, each <<port, page, reg, value>>: the calls
\* ws[lo..hi] in order, as two halves
RECURSIVE WriteRange(_, _, _, _)
WriteRange(st, ws, lo, hi) ==
    IF lo > hi THEN st
    ELSE IF lo = hi THEN write_phy(st, ws[lo][1], ws[lo][2], ws[lo][3], W(ws[lo][4]))
    ELSE The({WriteRange(h, ws, (lo + hi) \div 2 + 1, hi) :
              h \in {WriteRange(st, ws, lo, (lo + hi) \div 2)}})

WriteAll(st, ws) == The({WriteRange(st, w, 1, Len(w)) : w \in {ws}})

\* for (i = 0; i < n; i++) { write_phy(mac + i, 0xfff, r1, v1); write_phy(mac + i, 0xfff, r2, v2); }
WritePorts(st, mac, n, i, w1, w2) ==
    WriteAll(st, [j \in 1..(2 * (n - i)) |->
                     IF j % 2 = 1 THEN <<mac + i + (j - 1) \div 2, 4095, w1[1], w1[2]>>
                     ELSE <<mac + i + (j - 1) \div 2, 4095, w2[1], w2[2]>>])

\* the identification probe: lines 730-738, 824-832, 1353-1363
CfgProbe(op, st, mac) ==
    LET s1 == read_phy(st, mac, 0, 2)
        s2 == read_phy(s1, mac, 0, 3)
        s3 == IF op = "rtl8380_configure_rtl8214fc"
              THEN WriteAll(s2, <<<<mac, 0, 30, 1>>, <<mac, 0, 31, 2626>>>>)
              ELSE s2
        s4 == write_phy(s3, mac, 31, 27, W(2))
    IN read_phy(s4, mac, 31, 28)

\* power on or reset: lines 765-770, 857-867, 1385-1396
CfgPower(op, st, mac) ==
    IF op = "rtl8380_configure_rtl8214fc"
    THEN The({write_phy(IF Bit(11, s3.val) THEN rtl8380_rtl8214fc_on_off(s3, mac, TRUE)
                        ELSE rtl8380_phy_reset(s3, mac),
                        mac, 0, 30, W(1)) :
              s3 \in {read_phy(read_phy(write_phy(st, mac, 4095, 27, W(4)), mac, 4095, 28),
                               mac, 0, 16)}})
    ELSE The({IF op = "rtl8380_configure_ext_rtl8218b"
              THEN read_phy(WriteAll(IF Bit(11, s1.val)
                                     THEN rtl8380_int_phy_on_off(s1, mac, TRUE)
                                     ELSE rtl8380_phy_reset(s1, mac),
                                     <<<<mac, 4095, 31, 0>>, <<mac, 4095, 27, 4>>>>),
                            mac, 4095, 28)
              ELSE IF Bit(11, s1.val) THEN rtl8380_int_phy_on_off(s1, mac, TRUE)
              ELSE rtl8380_phy_reset(s1, mac) :
              s1 \in {read_phy(st, mac, 0, 0)}})

\* the tests that end the traversal of a list: lines 870-871 and 1399-1400; 793
CfgTripleEnd(off, reg) == ~(off # 0 /\ reg # 0)
CfgPairEnd(reg) == reg = 0

\* the per-chip list: lines 869-876 and 1398-1415
RECURSIVE CfgPerchip(_, _, _, _, _, _)
CfgPerchip(op, st, mac, img, i, page) ==
    LET off == CfgWord(img, 0, 3 * i)
        reg == CfgWord(img, 0, 3 * i + 1)
        v == CfgWord(img, 0, 3 * i + 2)
        pg == IF reg = 31 THEN v ELSE page
    IN IF CfgTripleEnd(off, reg) THEN st
       ELSE IF op = "rtl8380_configure_rtl8214fc" /\ reg = 19 /\ pg = 608
       THEN The({CfgPerchip(op, write_phy(s1, mac + off, 4095, reg,
                                          Or32(And32(s1.val, W(7936)), And32(W(v), W(57599)))),
                            mac, img, i + 1, pg) :
                 s1 \in {read_phy(st, mac + off, 608, 13)}})
       ELSE CfgPerchip(op, write_phy(st, mac + off, 4095, reg, W(v)), mac, img, i + 1, pg)

\* the pairs a loop over a list of pairs reaches: while (list[i * 2]) { ...; i++; }
RECURSIVE CfgPairsApplied(_, _, _)
CfgPairsApplied(img, part, i) ==
    IF CfgPairEnd(CfgWord(img, part, 2 * i)) THEN <<>>
    ELSE <<<<CfgWord(img, part, 2 * i), CfgWord(img, part, 2 * i + 1)>>>>
             \o CfgPairsApplied(img, part, i + 1)

\* the write_phy calls of such a loop for one port: lines 793-798, 923-927, 1473-1477
CfgPerportCalls(port, pairs) ==
    [j \in 1..Len(pairs) |-> <<port, 4095, pairs[j][1], pairs[j][2]>>]

CfgPerport(st, port, img, part) ==
    WriteAll(st, CfgPerportCalls(port, CfgPairsApplied(img, part, 0)))

\* the loop tests of the two polls: lines 1434 and 781, 896, 1454
CfgPollTest(kind, val) ==
    IF kind = "autosensing" THEN N(And32(val, W(7))) >= 3 ELSE And32(val, W(64)) # {}

\* for (l = 0; l < 100; l++) { read_phy(port, page, reg, &val); if (test) break; }
\* r is the loop's progress: the calls so far, l, and whether the break was
\* taken; CfgPoll runs at most n more iterations, as two halves.
RECURSIVE CfgPoll(_, _, _, _, _, _)
CfgPoll(r, port, page, reg, kind, n) ==
    IF r.hit \/ n = 0 THEN r
    ELSE IF n = 1
    THEN The({IF CfgPollTest(kind, s1.val) THEN [st |-> s1, l |-> r.l, hit |-> TRUE]
              ELSE [st |-> s1, l |-> r.l + 1, hit |-> FALSE] :
              s1 \in {read_phy(r.st, port, page, reg)}})
    ELSE The({CfgPoll(h, port, page, reg, kind, n - n \div 2) :
              h \in {CfgPoll(r, port, page, reg, kind, n \div 2)}})

\* if (l >= 100) return -1
CfgPollFailed_Never(l) == FALSE
CfgPollFailed(l) == l >= PollLimit

\* the poll of each port of the package in turn, given up at the first failure
RECURSIVE CfgPollPorts(_, _, _, _, _, _, _)
CfgPollPorts(st, mac, n, i, page, reg, kind) ==
    IF i >= n THEN [st |-> st, ok |-> TRUE]
    ELSE The({IF CfgPollFailed(r.l) THEN [st |-> r.st, ok |-> FALSE]
              ELSE CfgPollPorts(r.st, mac, n, i + 1, page, reg, kind) :
              r \in {CfgPoll([st |-> st, l |-> 0, hit |-> FALSE],
                                mac + i, page, reg, kind, PollLimit)}})

\* the value written to the broadcast ID register: 0xff00 + mac, 0x00 + mac
CfgBroadcastId_Off(mac, on) == mac
CfgBroadcastId(mac, on) == IF on THEN 65280 + mac ELSE mac

\* lines 906-911 and 930-935, 1464-1469 and 1480-1485
CfgBroadcast(st, mac, on) ==
    WriteAll(st, <<<<mac, 4095, 31, 0>>, <<mac, 4095, 29, 8>>, <<mac, 4095, 31, 614>>,
                   <<mac, 4095, 22, CfgBroadcastId(mac, on)>>,
                   <<mac, 4095, 31, 0>>, <<mac, 4095, 29, 0>>>>)

\* lines 791-806: both lists to each port in turn
RECURSIVE CfgIntCalls(_, _, _, _)
CfgIntCalls(mac, p, first, last) ==
    IF p >= 8 THEN <<>>
    ELSE CfgPerportCalls(mac + p, first) \o CfgPerportCalls(mac + p, last)
             \o CfgIntCalls(mac, p + 1, first, last)

CfgIntPatch(st, mac, img, p) ==
    WriteAll(st, The({CfgIntCalls(mac, p, x[1], x[2]) :
                      x \in {<<CfgPairsApplied(img, 8, 0), CfgPairsApplied(img, 9, 0)>>}}))

\* lines 905-936
CfgExtPatch(st, mac, img) ==
    LET s1 == CfgBroadcast(st, mac, TRUE)
        s2 == WriteAll(s1, <<<<mac, 4095, 30, 8>>, <<mac, 622, 17, 11>>, <<mac, 622, 16, 2>>>>)
        s3 == read_phy(s2, mac, 622, 19)
        s4 == write_phy(s3, mac, 0, 30, W(0))
        s5 == CfgPerport(s4, mac, img, 1)
    IN CfgBroadcast(s5, mac, FALSE)

\* lines 1463-1492
CfgFcPatch(st, mac, img) ==
    WritePorts(CfgBroadcast(CfgPerport(CfgBroadcast(st, mac, TRUE), mac, img, 1), mac, FALSE),
               mac, 4, 0, <<31, 0>>, <<30, 0>>)

\* sw_w32(val, reg) of the SerDes configuration, kept in the log
SwWrite(st, k, v) ==
    [st EXCEPT !.mem = MemPut(@, k, Trunc32(v)),
               !.log = Append(@, [e |-> "sw_w32", k |-> k, v |-> Trunc32(v)])]

\* sw_w32_mask(clear, set, reg) on a register known by its name
SwMask(st, name, clear, set) ==
    The({SwWrite(s, <<"reg", name>>,
                 Or32(And32(MemGet(s.mem, <<"reg", name>>), Not32(clear)), set)) :
         s \in {st}})

\* while (list[2 * i]) { sw_w32(list[2 * i + 1], list[2 * i]); i++; }: the calls
\* ws[lo..hi] of such a loop in order, as two halves
RECURSIVE CfgSdsList(_, _, _, _)
CfgSdsList(st, ws, lo, hi) ==
    IF lo > hi THEN st
    ELSE IF lo = hi THEN SwWrite(st, <<"sw", ws[lo][1]>>, W(ws[lo][2]))
    ELSE The({CfgSdsList(h, ws, (lo + hi) \div 2 + 1, hi) :
              h \in {CfgSdsList(st, ws, lo, (lo + hi) \div 2)}})

\* the pairs of the lists h->parts[from..to], list after list
RECURSIVE CfgSdsPairs(_, _, _)
CfgSdsPairs(img, from, to) ==
    IF from > to THEN <<>>
    ELSE CfgPairsApplied(img, from, 0) \o CfgSdsPairs(img, from + 1, to)

CfgSdsLists(st, img, from, to) ==
    The({CfgSdsList(st, ws, 1, Len(ws)) : ws \in {CfgSdsPairs(img, from, to)}})

\* lines 1554-1626
CfgSdsPatch(st, img) ==
    LET conf == MemGet(st.mem, <<"reg", "RTL838X_SDS_CFG_REG">>)
        s1 == CfgSdsLists(st, img, 0, 1)
        s2 == SwWrite(s1, <<"reg", "RTL838X_INT_RW_CTRL">>, W(3))
        s3 == SwMask(s2, "RTL838X_INT_MODE_CTRL", W(63), W(9))
        s4 == SwWrite(s3, <<"reg", "RTL838X_SDS_MODE_SEL">>,
                      Shl(W(6), 25) \cup Shl(W(6), 20) \cup Shl(W(6), 15)
                          \cup Shl(W(6), 10) \cup Shl(W(4), 5) \cup W(4))
        s5 == SwMask(s4, "RTL838X_PLL_CML_CTRL", Bits32 \ W(15), W(15))
        s6 == CfgSdsLists(s5, img, 2, 7)
    IN SwWrite(s6, <<"reg", "RTL838X_SDS_CFG_REG">>, conf)

\* if (val != 0x6275), if (val != 0x6276): lines 739, 833, 1364
CfgIdOk_Always(op, val) == TRUE
CfgIdOk(op, val) == val = W(CfgChipId(op))

\* if (h->phy != ...): lines 751, 843, 1374; rtl8380_configure_serdes tests
\* h->magic a second time instead: line 1525
CfgTargetOk_Always(op, data) == TRUE
CfgTargetOk(op, data) ==
    IF op = "rtl8380_configure_serdes" THEN FwField(data, FwOffsetOf.magic) = FwMagic
    ELSE FwField(data, FwOffsetOf.phy) = FwField(CfgTagBytes(op), 0)

CfgSt == [mem |-> phyMem, log |-> cLog, val |-> cVal]

\* return -1 at one of the checks
CfgFail(why) ==
    /\ cPc' = "done"
    /\ cRet' = -1
    /\ cWhy' = why

\* lines 730-742, 820-836, 1353-1367
rtl8380_configure_probe ==
    /\ cPc = "entry"
    /\ IF cOp = "rtl8380_configure_ext_rtl8218b" /\ family = RTL8380_FAMILY_ID
          /\ cMac # 0 /\ cMac # 16
       THEN /\ CfgFail("mac")
            /\ UNCHANGED <<phyMem, cLog, cVal, cStage>>
       ELSE \E s \in {CfgProbe(cOp, CfgSt, cMac)} :
               /\ phyMem' = s.mem /\ cLog' = s.log /\ cVal' = s.val
               /\ cStage' = Append(cStage, [name |-> "probe", end |-> Len(s.log)])
               /\ IF CfgIdOk(cOp, s.val)
                  THEN cPc' = "fw" /\ UNCHANGED <<cRet, cWhy>>
                  ELSE CfgFail("id")
    /\ UNCHANGED <<family, swreg, phyFill, eOp, ePort, eArg, ePc, ePollState, eLog, eRet>>
    /\ UNCHANGED <<phyFailAt, phyReadyAt, cOp, cMac, cSw>>
    /\ UNCHANGED <<fwVars, notCfg>>

\* h = rtl838x_request_fw(...): lines 747, 839, 1370, 1521
rtl8380_configure_request_fw ==
    /\ cPc = "fw"
    /\ fwPc = "off"
    /\ fwPc' = "entry"
    /\ cPc' = "fw_wait"
    /\ UNCHANGED <<family, swreg, eeeVars, notCfg>>
    /\ UNCHANGED <<fwAvail, fwOrig, fwData, fwSum, fwReads, fwH, fwHeld>>
    /\ UNCHANGED <<phyFailAt, phyReadyAt, cOp, cMac, cVal, cLog, cStage, cSw, cWhy, cRet>>

\* lines 748-754, 840-846, 1371-1377, 1522-1528
rtl8380_configure_check_fw ==
    /\ cPc = "fw_wait"
    /\ fwPc = "done"
    /\ IF fwH = "NULL" THEN CfgFail("fw")
       ELSE IF ~CfgTargetOk(cOp, fwData) THEN CfgFail("target")
       ELSE /\ cPc' = IF cOp = "rtl8380_configure_serdes" THEN "patch" ELSE "prepare"
            /\ UNCHANGED <<cRet, cWhy>>
    /\ UNCHANGED <<family, swreg, eeeVars, fwVars, notCfg>>
    /\ UNCHANGED <<phyFailAt, phyReadyAt, cOp, cMac, cVal, cLog, cStage, cSw>>

\* power on or reset, the per-chip list, enable, and the patch request:
\* lines 765-776, 857-889, 1385-1447
rtl8380_configure_prepare ==
    /\ cPc = "prepare"
    /\ LET ext == cOp = "rtl8380_configure_ext_rtl8218b"
           fc == cOp = "rtl8380_configure_rtl8214fc"
           n == CfgPorts(cOp)
       IN \E s1 \in {CfgPower(cOp, CfgSt, cMac)} :
          \E s2 \in {IF ext \/ fc THEN CfgPerchip(cOp, s1, cMac, fwData, 0, 0) ELSE s1} :
          \E s4 \in {IF ext \/ fc
                      THEN WritePorts(IF fc THEN WritePorts(s2, cMac, n, 0, <<31, 0>>, <<30, 1>>)
                                      ELSE s2,
                                      cMac, n, 0, <<31, 0>>, <<0, 4416>>)
                      ELSE s2} :
          \E r \in {IF fc THEN CfgPollPorts(s4, cMac, n, 0, 2626, 16, "autosensing")
                     ELSE [st |-> s4, ok |-> TRUE]} :
          \E s5 \in {IF r.ok THEN WritePorts(r.st, cMac, n, 0, <<31, 2946>>, <<16, 16>>)
                      ELSE r.st} :
              /\ phyMem' = s5.mem /\ cLog' = s5.log /\ cVal' = s5.val
              /\ cStage' = cStage \o <<[name |-> "power", end |-> Len(s1.log)],
                                       [name |-> "perchip", end |-> Len(s2.log)],
                                       [name |-> "prepare", end |-> Len(s5.log)]>>
              /\ IF r.ok THEN cPc' = "ready" /\ UNCHANGED <<cRet, cWhy>>
                 ELSE CfgFail("autosensing")
    /\ UNCHANGED <<family, swreg, phyFill, eOp, ePort, eArg, ePc, ePollState, eLog, eRet>>
    /\ UNCHANGED <<phyFailAt, phyReadyAt, cOp, cMac, cSw>>
    /\ UNCHANGED <<fwVars, notCfg>>

\* the readiness of every port of the package: lines 778-790, 892-903, 1450-1461
rtl8380_configure_ready ==
    /\ cPc = "ready"
    /\ \E r \in {CfgPollPorts(CfgSt, cMac, CfgPorts(cOp), 0, 2944, 16, "ready")} :
          /\ phyMem' = r.st.mem /\ cLog' = r.st.log /\ cVal' = r.st.val
          /\ cStage' = Append(cStage, [name |-> "ready", end |-> Len(r.st.log)])
          /\ IF r.ok THEN cPc' = "patch" /\ UNCHANGED <<cRet, cWhy>>
             ELSE CfgFail("notready")
    /\ UNCHANGED <<family, swreg, phyFill, eOp, ePort, eArg, ePc, ePollState, eLog, eRet>>
    /\ UNCHANGED <<phyFailAt, phyReadyAt, cOp, cMac, cSw>>
    /\ UNCHANGED <<fwVars, notCfg>>

\* the patch and return 0: lines 791-807, 905-938, 1463-1494, 1554-1629
rtl8380_configure_patch ==
    /\ cPc = "patch"
    /\ IF cOp = "rtl8380_configure_serdes"
       THEN \E s \in {CfgSdsPatch([mem |-> cSw, log |-> cLog, val |-> cVal], fwData)} :
                /\ cSw' = s.mem /\ cLog' = s.log /\ UNCHANGED <<phyMem, cVal>>
                /\ cStage' = Append(cStage, [name |-> "patch", end |-> Len(s.log)])
       ELSE \E s \in {IF cOp = "rtl8380_configure_int_rtl8218b"
                      THEN CfgIntPatch(CfgSt, cMac, fwData, 0)
                      ELSE IF cOp = "rtl8380_configure_ext_rtl8218b"
                      THEN CfgExtPatch(CfgSt, cMac, fwData)
                      ELSE CfgFcPatch(CfgSt, cMac, fwData)} :
                /\ phyMem' = s.mem /\ cLog' = s.log /\ cVal' = s.val /\ UNCHANGED cSw
                /\ cStage' = Append(cStage, [name |-> "patch", end |-> Len(s.log)])
    /\ cPc' = "done"
    /\ cRet' = 0
    /\ UNCHANGED <<family, swreg, phyFill, eOp, ePort, eArg, ePc, ePollState, eLog, eRet>>
    /\ UNCHANGED <<phyFailAt, phyReadyAt, cOp, cMac, cWhy>>
    /\ UNCHANGED <<fwVars, notCfg>>

\* The PHYs a routine meets: the ID its probe reads, what the other registers
\* hold, one port whose patch status turns ready only at read r, and the
\* access whose back end fails.
CfgBaseEnv(op) == [id |-> CfgChipId(op), fill |-> Bits16, q |-> 0, r |-> 1, fail |-> 0]

CfgEnvs(op) ==
    {[CfgBaseEnv(op) EXCEPT !.id = 50411 - CfgChipId(op)],
     [CfgBaseEnv(op) EXCEPT !.fill = {}]}
    \cup {[CfgBaseEnv(op) EXCEPT !.q = q, !.r = r] : q \in {0, 3}, r \in {PollLimit, PollLimit + 1}}
    \cup {[CfgBaseEnv(op) EXCEPT !.fail = f] : f \in {3, 12, 40}}

CfgScenarios(op) ==
    {[avail |-> TRUE, img |-> g, env |-> CfgBaseEnv(op), heap |-> <<>>] :
         g \in CfgGoodImages \cup CfgBadImages}
    \cup {[avail |-> FALSE, img |-> <<>>, env |-> CfgBaseEnv(op), heap |-> <<>>]}
    \cup {[avail |-> TRUE, img |-> CfgImage(CfgTagBytes(op), t, pr), env |-> e,
           heap |-> <<>>] :
              t \in CfgTriples, pr \in CfgPairs, e \in CfgEnvs(op)}
    \cup {[avail |-> TRUE, img |-> g, env |-> CfgBaseEnv(op), heap |-> hp] :
              g \in CfgOverrunImages(op), hp \in CfgHeaps}

CfgInit ==
    /\ family = RTL8380_FAMILY_ID
    /\ swreg = SwRegsZero
    /\ cOp \in CfgOps
    /\ cMac \in {0, 8}
    /\ \E sc \in CfgScenarios(cOp) :
        /\ fwAvail = sc.avail
        /\ fwOrig = sc.img
        /\ phyMem = MemPut(<<>>, <<"phy", cMac, 31, 28>>, W(sc.env.id))
        /\ phyFill = sc.env.fill
        /\ phyReadyAt = [p \in cMac..(cMac + 7) |-> IF p = cMac + sc.env.q THEN sc.env.r ELSE 1]
        /\ phyFailAt = sc.env.fail
        /\ heap = sc.heap
    /\ LateOff
    /\ fwData = <<>> /\ fwPc = "off" /\ fwSum = {} /\ fwReads = {}
    /\ fwH = "NULL" /\ fwHeld = FALSE
    /\ cPc = IF cOp = "rtl8380_configure_serdes" THEN "fw" ELSE "entry"
    /\ cVal = {} /\ cLog = <<>> /\ cStage = <<>> /\ cSw = <<>> /\ cWhy = "" /\ cRet = 0
    /\ eOp = "none" /\ ePort = 0 /\ eArg = FALSE /\ ePc = "off"
    /\ ePollState = {} /\ eLog = <<>> /\ eRet = 0
    /\ SdsOff
    /\ PollOff
    /\ DispOff
    /\ SerOff
    /\ StatOff
    /\ ConcOff

CfgNext ==
    \/ rtl8380_configure_probe
    \/ rtl8380_configure_request_fw
    \/ rtl838x_request_fw_fetch
    \/ rtl838x_request_fw_size
    \/ rtl838x_request_fw_magic
    \/ rtl838x_request_fw_checksum
    \/ rtl838x_request_fw_out
    \/ rtl8380_configure_check_fw
    \/ rtl8380_configure_prepare
    \/ rtl8380_configure_ready
    \/ rtl8380_configure_patch

SpecCfg == CfgInit /\ [][CfgNext]_vars

----------------------------------------------------------------------------
(* Properties of the indirect SerDes access *)

SdsIdx(kind, regs) ==
    {i \in DOMAIN sdsTrace : sdsTrace[i].k = kind /\ sdsTrace[i].reg \in regs}

SdsDataRegs == {"RTL930X_SDS_INDACS_DATA", "RTL931X_SERDES_INDRT_DATA_CTRL"}

SdsCmdReads == SdsIdx("r", SdsCmdRegs)
SdsCmdWrites == SdsIdx("w", SdsCmdRegs)
SdsDataReads == SdsIdx("r", SdsDataRegs)
SdsDataWrites == SdsIdx("w", SdsDataRegs)

\* the reads of the polling loop: the command register reads after the last write
SdsPolls ==
    LET ws == {i \in DOMAIN sdsTrace : sdsTrace[i].k = "w"}
    IN {i \in SdsCmdReads : \A j \in ws : j < i}

SdsBusyAt(i) == 0 \in sdsTrace[i].val

SdsAlwaysBusy == \A i \in SdsCmdReads : SdsBusyAt(i)

SdsLastIsPoll == Len(sdsTrace) \in SdsPolls

\* C1 as stated: when every read of the command register shows the busy bit, the
\* call reads the command register exactly 100 times, returns -EIO, makes no access
\* after the last poll, and a read never reads the data register.
C1_AsStated ==
    (sdsPc = "done" /\ SdsAlwaysBusy) =>
        /\ Cardinality(SdsCmdReads) = 100
        /\ sdsRet = -5
        /\ SdsLastIsPoll
        /\ (SdsIsRead(sdsFn) => SdsDataReads = {})

\* C1 amended: when every read of the command register shows the busy bit, the
\* polling loop reads it exactly 100 times (rtl931x_write_sds_phy has read it once
\* more before, to build the command word: 101 reads), the call returns -EIO, makes
\* no access after the last poll, and a read never reads the data register.
C1_Timeout ==
    (sdsPc = "done" /\ SdsAlwaysBusy) =>
        /\ Cardinality(SdsPolls) = 100
        /\ Cardinality(SdsCmdReads) =
               (IF sdsFn = "rtl931x_write_sds_phy" THEN 101 ELSE 100)
        /\ sdsRet = -5
        /\ SdsLastIsPoll
        /\ (SdsIsRead(sdsFn) => SdsDataReads = {})

C1_Witness ==
    /\ sdsPc = "done" /\ SdsAlwaysBusy
    /\ sdsFn = "rtl931x_read_sds_phy"
    /\ Cardinality(SdsPolls) = 100
    /\ sdsRet = -5

\* C2: once an indirect write polls the busy bit, it has written the value to the
\* data register and, after that, a command word to the command register that
\* addresses lane, page and register with direction=write and start=1.
C2_WriteThenCommand ==
    (~SdsIsRead(sdsFn) /\ sdsPc \in {"poll", "after", "done"}) =>
        \E i \in SdsDataWrites : \E j \in SdsCmdWrites :
            /\ i < j
            /\ sdsTrace[i].val = W(sdsArg.v)
            /\ SdsCmdAddr(sdsTrace[j].val) = sdsArg.a
            /\ SdsCmdIsWrite(sdsTrace[j].val)
            /\ SdsCmdHasStart(sdsTrace[j].val)
            /\ \A k \in SdsPolls : j < k

\* C3: an indirect read writes the command word (direction=read, start=1) exactly
\* once, before the first poll; when poll k is the first to show the busy bit clear,
\* polling stops there and the call returns the data register masked to 16 bits, a
\* value in 0..65535 and so never the timeout error.
C3_ReadResult ==
    (SdsIsRead(sdsFn) /\ sdsPc # "entry") =>
        /\ SdsCmdWrites = {1}
        /\ sdsTrace[1].val = SdsCmdWord(sdsArg.a, 1)
        /\ SdsCmdAddr(sdsTrace[1].val) = sdsArg.a
        /\ ~SdsCmdIsWrite(sdsTrace[1].val)
        /\ SdsCmdHasStart(sdsTrace[1].val)
        /\ \A k \in SdsCmdReads :
              ~SdsBusyAt(k) =>
                  /\ k - 1 \in 1..100
                  /\ SdsPolls = 2..k
                  /\ \A j \in 2..(k - 1) : SdsBusyAt(j)
                  /\ sdsPc = "done" =>
                        /\ Len(sdsTrace) = k + 1
                        /\ SdsDataReads = {k + 1}
                        /\ sdsRet = N(sdsTrace[k + 1].val \cap (0..15))
                        /\ sdsRet \in 0..65535
                        /\ sdsRet # -5

C3_Witness ==
    /\ SdsIsRead(sdsFn) /\ sdsPc = "done"
    /\ Cardinality(SdsPolls) = 7
    /\ \E i \in SdsDataReads : 31 \in sdsTrace[i].val
    /\ sdsRet = 65531

----------------------------------------------------------------------------
(* Properties of the polling lock *)

PollImplemented == {RTL8380_FAMILY_ID, RTL8390_FAMILY_ID, RTL9300_FAMILY_ID}

\* the polling mask held by the registers: the set of ports whose bit is 1
PollMaskOf(f, regs) ==
    IF f = RTL8380_FAMILY_ID THEN regs["RTL838X_SMI_POLL_CTRL"]
    ELSE IF f = RTL8390_FAMILY_ID
        THEN regs["RTL839X_SMI_PORT_POLLING_CTRL"]
             \cup {b + 32 : b \in regs["RTL839X_SMI_PORT_POLLING_CTRL_4"]}
    ELSE IF f = RTL9300_FAMILY_ID THEN regs["RTL930X_SMI_POLL_CTRL"]
    ELSE {}

PollOther(t) == CHOOSE o \in Threads : o # t

PollInSection(t) == pPc[t] \in {"d_read", "d_clear", "d_unlock", "r_write", "r_unlock"}

PollOutside(t) == pPc[t] \in {"idle", "disabled", "done"}

\* C4: on RTL8380, RTL8390 and RTL9300, for every port and initial mask, after
\* disable_polling(port) and resume_polling(saved) with no write by anyone else the
\* polling registers (both words on RTL8390) hold their value from before disable.
C4_RoundTrip ==
    \A t \in Threads :
        (family \in PollImplemented /\ pPc[t] = "done" /\ pPc[PollOther(t)] = "idle")
            => swreg = poll0

C4_Witness ==
    /\ family = RTL8390_FAMILY_ID
    /\ pPc[1] = "done" /\ pPc[2] = "idle"
    /\ pPort[1] = 51
    /\ 19 \in poll0["RTL839X_SMI_PORT_POLLING_CTRL_4"]
    /\ 19 \in swreg["RTL839X_SMI_PORT_POLLING_CTRL_4"]

\* C5: when two operations on different ports have each done one disable_polling /
\* resume_polling pair, in whatever interleaving, the polling registers hold their
\* value from before either started.
C5_AnyInterleaving ==
    (pPort[1] # pPort[2] /\ pPc[1] = "done" /\ pPc[2] = "done") => swreg = poll0

C7_Serialized ==
    /\ \A t \in Threads : PollInSection(t) <=> poll_lock = t
    /\ \A t \in Threads : PollInSection(t) => ~PollInSection(PollOther(t))
    /\ \A t \in Threads : pPc[t] = "d_clear" => swreg = pPre[t]
    /\ (\A t \in Threads : PollOutside(t)) => poll_lock = 0

C7_Witness ==
    /\ family = OTHER_FAMILY_ID
    /\ pPc[1] = "d_clear"
    /\ pPc[2] = "disabled"
    /\ poll_lock = 1

----------------------------------------------------------------------------
(* Properties of the EEE and medium operations *)

EeeIdx(kinds) == {i \in DOMAIN eLog : eLog[i].e \in kinds}

EeeAccesses == EeeIdx({"read_phy", "write_phy", "read_mmd_phy", "write_mmd_phy"})
EeeDisables == EeeIdx({"disable_polling"})
EeeResumes == EeeIdx({"resume_polling"})

\* one disable_polling, one resume_polling, and every PHY access between them
EeeBracketed ==
    /\ Cardinality(EeeDisables) = 1
    /\ Cardinality(EeeResumes) = 1
    /\ \A i \in EeeAccesses :
          /\ \A d \in EeeDisables : d < i
          /\ \A r \in EeeResumes : i < r

\* C8: an EEE set operation that has touched PHY registers has called
\* disable_polling exactly once and resume_polling exactly once when it returns,
\* and all its PHY register reads and writes lie between the two calls.
C8_EeeBracketed ==
    (eOp \in EeeOps \ {"rtl8214fc_set_port"} /\ ePc = "done" /\ EeeAccesses # {})
        => EeeBracketed

\* C9: the medium change of the RTL8214FC (rtl8214fc_set_port) runs entirely
\* between one disable_polling and one resume_polling of the port.
C9_MediaBracketed ==
    (eOp = "rtl8214fc_set_port" /\ ePc = "done") => EeeBracketed

----------------------------------------------------------------------------
(* Properties of the firmware loader *)

\* the image's checksum field zeroed, as a fresh sequence of bytes
FwZeroed(img) ==
    [i \in DOMAIN img |-> IF i \in 5..8 THEN 0 ELSE img[i]]

\* the conditions under which the image is to be accepted
FwAcceptable ==
    /\ fwAvail
    /\ Len(fwOrig) >= FwHeaderSize
    /\ FwField(fwOrig, 0) = FwMagic
    /\ Bits32 \ crc32(Bits32, FwZeroed(fwOrig)) = FwField(fwOrig, 4)

\* C10: rtl838x_request_fw returns the header exactly when the image was fetched,
\* is at least a header long, has magic 0x83808380 and a checksum field equal to
\* the complemented CRC32 of the image with that field zeroed; else it returns
\* NULL; of an image shorter than the header no field is ever read.
C10_RequestFw ==
    /\ fwPc = "done" => ((fwH = "h") <=> FwAcceptable)
    /\ fwPc = "done" => fwH \in {"h", "NULL"}
    /\ (fwPc # "off" /\ Len(fwOrig) < FwHeaderSize) => fwReads = {}

C10_Witness ==
    /\ fwPc = "done"
    /\ fwH = "h"
    /\ Len(fwOrig) = FwHeaderSize + MaxPayload
    /\ fwReads = {"magic", "checksum"}

\* the model's CRC gives the CRC-32 check value, 0xCBF43926 for "123456789"
CrcCheckValue ==
    FwMyChecksum(<<49, 50, 51, 52, 53, 54, 55, 56, 57>>)
        = FwField(<<203, 244, 57, 38>>, 0)

\* C11: once checksum validation has run, matched or not, the checksum field of
\* the image buffer holds the value it had before validation.
C11_ChecksumRestored ==
    (fwPc = "done" /\ "checksum" \in fwReads)
        => FwField(fwData, FwOffsetOf.checksum) = FwField(fwOrig, FwOffsetOf.checksum)

----------------------------------------------------------------------------
(* Properties of the configure routines *)

CfgIsWrite(x) == x.e \in {"write_phy", "sw_w32"}

\* the register writes the configure call has issued, in order
CfgWrites == SelectSeq(cLog, CfgIsWrite)

\* the positions in the log of the writes of a stage: after the mark before it,
\* up to its own mark
CfgStageEnd(name) ==
    IF \E i \in DOMAIN cStage : cStage[i].name = name
    THEN (CHOOSE x \in {cStage[i] : i \in DOMAIN cStage} : x.name = name).end
    ELSE -1

CfgPhyWrite(port, page, reg, v) ==
    [e |-> "write_phy", k |-> <<"phy", port, page, reg>>, v |-> W(v)]

\* the page-select writes of the identification probe
CfgProbeWrites(op, mac) ==
    (IF op = "rtl8380_configure_rtl8214fc"
     THEN <<CfgPhyWrite(mac, 0, 30, 1), CfgPhyWrite(mac, 0, 31, 2626)>>
     ELSE <<>>) \o <<CfgPhyWrite(mac, 31, 27, 2)>>

\* a PHY routine has fetched an image that rtl838x_request_fw accepts and that
\* is tagged for another chip
CfgWrongTarget ==
    /\ cOp # "rtl8380_configure_serdes"
    /\ cPc = "done"
    /\ fwPc = "done"
    /\ FwAcceptable
    /\ FwField(fwOrig, FwOffsetOf.phy) # FwField(CfgTagBytes(cOp), 0)

\* C12, as stated: with a valid image tagged for another chip the PHY routines
\* fail and have issued no PHY register write when they fail.
C12_NoWriteBeforeMismatch ==
    CfgWrongTarget => (cRet = -1 /\ CfgWrites = <<>>)

\* C12, amended: with a valid image tagged for another chip the PHY routines
\* fail, and the only register writes issued when they fail are the page-select
\* writes of the identification probe, which runs before the image is fetched.
C12_TargetMismatch ==
    CfgWrongTarget => (cRet = -1 /\ CfgWrites = CfgProbeWrites(cOp, cMac))

C12_Witness ==
    /\ CfgWrongTarget
    /\ cOp = "rtl8380_configure_rtl8214fc"
    /\ cRet = -1
    /\ Len(CfgWrites) = 3

\* C13: every routine that consumes an image, rtl8380_configure_serdes included,
\* rejects a valid image tagged for another chip and applies none of its
\* write-lists: it fails having written nothing but what precedes the fetch.
C13_TargetCheckedEverywhere ==
    (cPc = "done" /\ fwPc = "done" /\ FwAcceptable
        /\ FwField(fwOrig, FwOffsetOf.phy) # FwField(CfgTagBytes(cOp), 0))
    => /\ cRet = -1
       /\ CfgWrites = IF cOp = "rtl8380_configure_serdes" THEN <<>>
                      ELSE CfgProbeWrites(cOp, cMac)

CfgPackage == cMac..(cMac + CfgPorts(cOp) - 1)

\* the reads of a port's patch status (page 0xb80, register 16) among the first
\* n calls of the log
CfgStatusReads(port, n) ==
    {i \in 1..n : cLog[i].e = "read_phy" /\ cLog[i].k = <<"phy", port, 2944, 16>>}

\* the call has polled for readiness, and a port of the package does not show
\* the ready bit within PollLimit reads
CfgNotReady ==
    /\ cOp # "rtl8380_configure_serdes"
    /\ cPc = "done"
    /\ CfgStageEnd("ready") # -1
    /\ \E p \in CfgPackage : phyReadyAt[p] > PollLimit

\* C14: when a port of the package does not show the ready bit 0x40 within
\* PollLimit reads, the call returns -1 and its last register access is the
\* last of those reads: no list entry and no broadcast write follows, and no
\* earlier write is undone.  Whenever the patch stage has run, every port of
\* the package was read ready before its first write.
C14_NotReadyAborts ==
    /\ CfgNotReady =>
          /\ cRet = -1
          /\ CfgStageEnd("patch") = -1
          /\ Len(cLog) = CfgStageEnd("ready")
          /\ \E p \in CfgPackage :
                /\ phyReadyAt[p] > PollLimit
                /\ Len(cLog) \in CfgStatusReads(p, Len(cLog))
                /\ Cardinality(CfgStatusReads(p, Len(cLog))) = PollLimit
                /\ \A q \in CfgPackage : q > p => CfgStatusReads(q, Len(cLog)) = {}
    /\ (cOp # "rtl8380_configure_serdes" /\ CfgStageEnd("patch") # -1) =>
          \A p \in CfgPackage :
              \E i \in CfgStatusReads(p, CfgStageEnd("ready")) : 6 \in cLog[i].v

C14_Witness ==
    /\ CfgNotReady
    /\ cOp = "rtl8380_configure_ext_rtl8218b"
    /\ phyReadyAt[cMac + 3] > PollLimit
    /\ Cardinality(CfgStatusReads(cMac + 3, Len(cLog))) = PollLimit
    /\ cRet = -1

\* a port that turns ready at the last permitted read lets the patch go ahead
C14_WitnessLastRead ==
    /\ cPc = "done"
    /\ cRet = 0
    /\ cOp = "rtl8380_configure_rtl8214fc"
    /\ phyReadyAt[cMac + 3] = PollLimit
    /\ CfgStageEnd("patch") # -1

\* the entries of a list that precede its all-zero entry: triples, pairs
RECURSIVE CfgTripleEntries(_, _, _)
CfgTripleEntries(img, part, i) ==
    LET e == <<CfgWord(img, part, 3 * i), CfgWord(img, part, 3 * i + 1),
               CfgWord(img, part, 3 * i + 2)>>
    IN IF e = <<0, 0, 0>> THEN <<>> ELSE <<e>> \o CfgTripleEntries(img, part, i + 1)

RECURSIVE CfgPairEntries(_, _, _)
CfgPairEntries(img, part, i) ==
    LET e == <<CfgWord(img, part, 2 * i), CfgWord(img, part, 2 * i + 1)>>
    IN IF e = <<0, 0>> THEN <<>> ELSE <<e>> \o CfgPairEntries(img, part, i + 1)

\* the register writes among the calls from + 1 .. to of the log
CfgStageWrites(from, to) == SelectSeq(SubSeq(cLog, from + 1, to), CfgIsWrite)

\* one write per entry, in the order of the list
CfgTripleWrites(es, mac) ==
    [i \in 1..Len(es) |-> CfgPhyWrite(mac + es[i][1], 4095, es[i][2], es[i][3])]
CfgPairWrites(es, port) ==
    [i \in 1..Len(es) |-> CfgPhyWrite(port, 4095, es[i][1], es[i][2])]

RECURSIVE CfgIntWrites(_, _, _)
CfgIntWrites(img, mac, p) ==
    IF p >= 8 THEN <<>>
    ELSE CfgPairWrites(CfgPairEntries(img, 8, 0), mac + p)
             \o CfgPairWrites(CfgPairEntries(img, 9, 0), mac + p)
             \o CfgIntWrites(img, mac, p + 1)

\* C15: the replay of a list issues one write per entry that precedes the
\* all-zero entry, in list order and each once, and none for that entry or
\* what follows it: the per-chip triples of the external RTL8218B, and the two
\* lists of pairs the internal RTL8218B replays to each of its ports.
C15_ReplayInOrder ==
    /\ (cOp = "rtl8380_configure_ext_rtl8218b" /\ CfgStageEnd("perchip") # -1) =>
          CfgStageWrites(CfgStageEnd("power"), CfgStageEnd("perchip"))
              = CfgTripleWrites(CfgTripleEntries(fwData, 0, 0), cMac)
    /\ (cOp = "rtl8380_configure_int_rtl8218b" /\ CfgStageEnd("patch") # -1) =>
          CfgStageWrites(CfgStageEnd("ready"), CfgStageEnd("patch"))
              = CfgIntWrites(fwData, cMac, 0)

\* the lists for which the replay is as C15 says: no entry before the all-zero
\* one has a zero offset or a zero register
C15_PlainLists ==
    /\ cPc = "done"
    /\ cRet = 0
    /\ cOp = "rtl8380_configure_ext_rtl8218b"
    /\ Len(CfgTripleEntries(fwData, 0, 0)) = 2
    /\ CfgStageWrites(CfgStageEnd("power"), CfgStageEnd("perchip"))
           = CfgTripleWrites(CfgTripleEntries(fwData, 0, 0), cMac)

CfgBroadcastOps == {"rtl8380_configure_ext_rtl8218b", "rtl8380_configure_rtl8214fc"}

\* C16: the traversal of a list stops only at its all-zero entry: every per-chip
\* triple before it is written to its port, one with offset 0 included, and
\* every pair of the per-port list before it is written, one with register 0
\* and a non-zero value included.
C16_StopsOnlyAtSentinel ==
    /\ (cOp \in CfgBroadcastOps /\ CfgStageEnd("perchip") # -1) =>
          \A e \in {CfgTripleEntries(fwData, 0, 0)[i] :
                        i \in DOMAIN CfgTripleEntries(fwData, 0, 0)} :
              \E j \in (CfgStageEnd("power") + 1)..CfgStageEnd("perchip") :
                  /\ cLog[j].e = "write_phy"
                  /\ cLog[j].k = <<"phy", cMac + e[1], 4095, e[2]>>
    /\ (cOp \in CfgBroadcastOps /\ CfgStageEnd("patch") # -1) =>
          \A e \in {CfgPairEntries(fwData, 1, 0)[i] :
                        i \in DOMAIN CfgPairEntries(fwData, 1, 0)} :
              \E j \in (CfgStageEnd("ready") + 1)..CfgStageEnd("patch") :
                  cLog[j] = CfgPhyWrite(cMac, 4095, e[1], e[2])

\* the per-chip list starts with a triple for the base port and nothing of the
\* list is written
C16_BasePortSkipped ==
    /\ cOp = "rtl8380_configure_rtl8214fc"
    /\ cPc = "done"
    /\ cRet = 0
    /\ CfgTripleEntries(fwData, 0, 0)[1][1] = 0
    /\ CfgStageEnd("perchip") = CfgStageEnd("power")

\* a pair for register 0 ends the per-port list before its all-zero entry
C16_RegisterZeroSkipped ==
    /\ cOp = "rtl8380_configure_ext_rtl8218b"
    /\ cPc = "done"
    /\ cRet = 0
    /\ CfgTripleEntries(fwData, 0, 0)[1][1] # 0
    /\ Len(CfgPairEntries(fwData, 1, 0)) = 3
    /\ ~\E j \in DOMAIN cLog : cLog[j] = CfgPhyWrite(cMac, 4095, 16, 19)

\* the calls of the patch stage
CfgPatchRange == (CfgStageEnd("ready") + 1)..CfgStageEnd("patch")

\* the writes between the write of the broadcast ID and the per-port list, and
\* between the list and the next write of the broadcast ID
CfgAfterEnable(op, mac) ==
    <<CfgPhyWrite(mac, 4095, 31, 0), CfgPhyWrite(mac, 4095, 29, 0)>>
        \o (IF op = "rtl8380_configure_ext_rtl8218b"
            THEN <<CfgPhyWrite(mac, 4095, 30, 8), CfgPhyWrite(mac, 622, 17, 11),
                   CfgPhyWrite(mac, 622, 16, 2), CfgPhyWrite(mac, 0, 30, 0)>>
            ELSE <<>>)
CfgBeforeDisable(mac) ==
    <<CfgPhyWrite(mac, 4095, 31, 0), CfgPhyWrite(mac, 4095, 29, 8),
      CfgPhyWrite(mac, 4095, 31, 614)>>

\* C17: in a run of rtl8380_configure_ext_rtl8218b or rtl8380_configure_rtl8214fc
\* that reaches the patch stage, the broadcast ID register (page 0x266,
\* register 0x16) is written 0xff00 + mac, then come the writes of the
\* per-port list, then it is written mac, with the calls in between, reads
\* included, in program order and nothing else written to that register; the
\* register then holds mac; and the RTL8214FC's four ports have 0 written to
\* their medium-select register after that.
C17_BroadcastBracket ==
    (cOp \in CfgBroadcastOps /\ CfgStageEnd("patch") # -1) =>
        \E a, b \in CfgPatchRange :
            /\ a < b
            /\ cLog[a - 1] = CfgPhyWrite(cMac, 4095, 31, 614)
            /\ cLog[a] = CfgPhyWrite(cMac, 4095, 22, 65280 + cMac)
            /\ cLog[b] = CfgPhyWrite(cMac, 4095, 22, cMac)
            /\ \A j \in CfgPatchRange \ {a, b} :
                   ~(cLog[j].e = "write_phy" /\ cLog[j].k = <<"phy", cMac, 4095, 22>>)
            /\ CfgStageWrites(a, b - 1)
                   = CfgAfterEnable(cOp, cMac)
                         \o CfgPairWrites(CfgPairsApplied(fwData, 1, 0), cMac)
                         \o CfgBeforeDisable(cMac)
            /\ cOp = "rtl8380_configure_ext_rtl8218b" =>
                   {j \in a..b : cLog[j].e = "read_phy"} = {a + 6}
            /\ phyFailAt = 0 => MemGet(phyMem, <<"phy", cMac, 4095, 22>>) = W(cMac)
            /\ cOp = "rtl8380_configure_rtl8214fc" =>
                   \A p \in CfgPackage :
                       \E j \in (b + 1)..CfgStageEnd("patch") :
                           cLog[j] = CfgPhyWrite(p, 4095, 30, 0)

C17_Witness ==
    /\ cOp = "rtl8380_configure_rtl8214fc"
    /\ cMac = 8
    /\ cPc = "done"
    /\ cRet = 0
    /\ \E a, b \in CfgPatchRange :
           /\ a < b
           /\ cLog[a] = CfgPhyWrite(cMac, 4095, 22, 65280 + cMac)
           /\ cLog[b] = CfgPhyWrite(cMac, 4095, 22, cMac)
           /\ Len(CfgStageWrites(a, b - 1)) = 6
    /\ cLog[Len(cLog)] = CfgPhyWrite(cMac + 3, 4095, 30, 0)

C17_WitnessExt ==
    /\ cOp = "rtl8380_configure_ext_rtl8218b"
    /\ cPc = "done"
    /\ cRet = 0
    /\ \E a \in CfgPatchRange :
           /\ cLog[a] = CfgPhyWrite(cMac, 4095, 22, 65280 + cMac)
           /\ cLog[a + 6].e = "read_phy"
    /\ cLog[Len(cLog) - 2] = CfgPhyWrite(cMac, 4095, 22, cMac)

\* C18: when a read or write through the transport returns an error during a
\* configure call, the call stops there: the failed access is its last one and
\* it returns -1.
C18_TransportErrorAborts ==
    (cOp # "rtl8380_configure_serdes" /\ cPc = "done"
        /\ phyFailAt # 0 /\ Len(cLog) >= phyFailAt)
    => (cRet = -1 /\ Len(cLog) = phyFailAt)

\* a write of the patch-request stage fails, and the call goes on to replay the
\* lists and returns 0
C18_FailureIgnored ==
    /\ cOp = "rtl8380_configure_ext_rtl8218b"
    /\ cPc = "done"
    /\ phyFailAt \in (CfgStageEnd("perchip") + 1)..CfgStageEnd("prepare")
    /\ cLog[phyFailAt].e = "write_phy"
    /\ CfgStageEnd("patch") = Len(cLog)
    /\ cRet = 0

\* the probe has run and the ID register holds another value than the routine
\* expects
CfgWrongId ==
    /\ cOp # "rtl8380_configure_serdes"
    /\ CfgStageEnd("probe") # -1
    /\ MemGet(phyMem, <<"phy", cMac, 31, 28>>) # W(CfgChipId(cOp))

\* C19: when the probe reads another ID than 0x6275 (internal RTL8218B) or
\* 0x6276 (external RTL8218B, RTL8214FC), the routine returns -1 at once: no
\* firmware is requested, and the only register writes are the page-select
\* writes of the probe.
C19_WrongIdFailsFast ==
    CfgWrongId =>
        /\ cPc = "done"
        /\ cRet = -1
        /\ fwPc = "off"
        /\ ~fwHeld
        /\ Len(cLog) = CfgStageEnd("probe")
        /\ CfgWrites = CfgProbeWrites(cOp, cMac)

C19_Witness ==
    /\ CfgWrongId
    /\ cOp = "rtl8380_configure_int_rtl8218b"
    /\ MemGet(phyMem, <<"phy", cMac, 31, 28>>) = W(25206)
    /\ cRet = -1
    /\ Len(cLog) = 4

\* C20: when a configure call has returned, with 0 or with -1 at any of its
\* checks, the firmware image it acquired has been released.
C20_FirmwareReleased ==
    cPc = "done" => ~fwHeld

\* the image is still held after a refusal by rtl838x_request_fw, after a
\* target mismatch, after a failed readiness poll and after a complete patch
C20_HeldAfterRefusal == cPc = "done" /\ cWhy = "fw" /\ fwHeld
C20_HeldAfterMismatch == cPc = "done" /\ cWhy = "target" /\ fwHeld
C20_HeldAfterNotReady == cPc = "done" /\ cWhy = "notready" /\ fwHeld
C20_HeldAfterPatch == cPc = "done" /\ cRet = 0 /\ fwHeld

----------------------------------------------------------------------------
(* Family dispatch of the generic register accessors *)

DispFns == {"read_phy", "write_phy", "read_mmd_phy", "write_mmd_phy",
            "rtl8218b_read_mmd", "rtl8218b_write_mmd",
            "rtl8226_read_mmd", "rtl8226_write_mmd"}
DispDispatchers == {"read_phy", "write_phy", "read_mmd_phy", "write_mmd_phy"}
DispKeys(fn) ==
    IF fn \in {"read_phy", "write_phy"}
    THEN {<<"phy", 0, 0, 1>>, <<"phy", 8, 2944, 16>>}
    ELSE {<<"mmd", 0, 7, 60>>, <<"mmd", 8, 31, 41986>>}
DispVals == {W(4660), W(65535)}

\* the switch on soc_info.family has a case for f
DispSupported_Default(f) == TRUE
DispSupported(f) == f \in SupportedFamilies

\* the back end of family f: it is recorded as invoked; it succeeds (ret = 0)
\* and then reads into *val or writes the register, or fails with no effect
DispBackEnd(f, kind, k, v, ret) ==
    /\ ret \in {0, -EIO}
    /\ dCalls' = Append(dCalls, <<f, kind>>)
    /\ IF ret # 0 THEN UNCHANGED <<phyMem, dVal>>
       ELSE IF kind \in {"read_phy", "read_mmd_phy"}
            THEN dVal' = MemGet(phyMem, k) /\ UNCHANGED phyMem
            ELSE phyMem' = MemPut(phyMem, k, v \cap Bits16) /\ UNCHANGED dVal

\* switch (soc_info.family) { case ...: return <family>_<kind>(...); } return -1;
DispSwitch(kind, k, v, ret) ==
    IF DispSupported(family)
    THEN DispBackEnd(family, kind, k, v, ret)
    ELSE ret = -1 /\ UNCHANGED <<phyMem, dVal, dCalls>>

notDisp == <<swreg, sdsVars, pollVars, phyFill, eOp, ePort, eArg, ePc, ePollState,
             eLog, eRet, fwVars, phyFailAt, phyReadyAt, cOp, cMac, cPc, cVal, cLog,
             cStage, cSw, cWhy, cRet, serVars, statVars, concVars, heap, lateVars>>

DispReturn(ret) ==
    /\ dRet' = ret
    /\ dPc' = "done"
    /\ UNCHANGED <<family, dFn, dArg, notDisp>>

DispCalled(fn) == dFn = fn /\ dPc = "entry"

read_phy_call ==
    /\ DispCalled("read_phy")
    /\ \E ret \in {0, -1, -EIO} :
        DispSwitch("read_phy", dArg.k, {}, ret) /\ DispReturn(ret)

write_phy_call ==
    /\ DispCalled("write_phy")
    /\ \E ret \in {0, -1, -EIO} :
        DispSwitch("write_phy", dArg.k, dArg.v, ret) /\ DispReturn(ret)

read_mmd_phy_call ==
    /\ DispCalled("read_mmd_phy")
    /\ \E ret \in {0, -1, -EIO} :
        DispSwitch("read_mmd_phy", dArg.k, {}, ret) /\ DispReturn(ret)

write_mmd_phy_call ==
    /\ DispCalled("write_mmd_phy")
    /\ \E ret \in {0, -1, -EIO} :
        DispSwitch("write_mmd_phy", dArg.k, dArg.v, ret) /\ DispReturn(ret)

\* ret = read_mmd_phy(addr, devnum, regnum, &val); if (ret) return ret; return val;
rtl8218b_read_mmd ==
    /\ DispCalled("rtl8218b_read_mmd")
    /\ \E ret \in {0, -1, -EIO} :
        /\ DispSwitch("read_mmd_phy", dArg.k, {}, ret)
        /\ DispReturn(IF ret # 0 THEN ret ELSE ToInt(dVal'))

\* return rtl838x_write_mmd_phy(addr, devnum, regnum, val);
rtl8218b_write_mmd ==
    /\ DispCalled("rtl8218b_write_mmd")
    /\ \E ret \in {0, -EIO} :
        /\ DispBackEnd(RTL8380_FAMILY_ID, "write_mmd_phy", dArg.k, dArg.v, ret)
        /\ DispReturn(ret)

rtl8226_read_mmd ==
    /\ DispCalled("rtl8226_read_mmd")
    /\ \E ret \in {0, -1, -EIO} :
        /\ DispSwitch("read_mmd_phy", dArg.k, {}, ret)
        /\ DispReturn(IF ret # 0 THEN ret ELSE ToInt(dVal'))

rtl8226_write_mmd ==
    /\ DispCalled("rtl8226_write_mmd")
    /\ \E ret \in {0, -1, -EIO} :
        DispSwitch("write_mmd_phy", dArg.k, dArg.v, ret) /\ DispReturn(ret)

DispInit ==
    /\ family \in Families
    /\ swreg = SwRegsZero
    /\ phyMem = <<>>
    /\ phyFill \in PhyFills
    /\ dFn \in DispFns
    /\ \E k \in DispKeys(dFn), v \in DispVals, old \in {{}, W(43981)} :
        /\ dArg = [k |-> k, v |-> v, old |-> old]
        /\ dVal = old
    /\ dCalls = <<>>
    /\ dRet = 0
    /\ dPc = "entry"
    /\ eOp = "none" /\ ePort = 0 /\ eArg = FALSE /\ ePc = "off"
    /\ ePollState = {} /\ eLog = <<>> /\ eRet = 0
    /\ SdsOff
    /\ PollOff
    /\ FwOff
    /\ CfgOff
    /\ SerOff
    /\ StatOff
    /\ ConcOff
    /\ HeapOff
    /\ LateOff

DispNext ==
    \/ read_phy_call
    \/ write_phy_call
    \/ read_mmd_phy_call
    \/ write_mmd_phy_call
    \/ rtl8218b_read_mmd
    \/ rtl8218b_write_mmd
    \/ rtl8226_read_mmd
    \/ rtl8226_write_mmd

SpecDisp == DispInit /\ [][DispNext]_vars

DispDone(fn) == dFn = fn /\ dPc = "done"

\* C21: when the SoC family is none of the four supported ones, read_phy,
\* write_phy, read_mmd_phy and write_mmd_phy return -1, invoke no family back
\* end, change no register and leave the caller's *val as it was.
C21_UnknownFamilyRefused ==
    (dPc = "done" /\ dFn \in DispDispatchers /\ family \notin SupportedFamilies) =>
        /\ dRet = -1
        /\ dCalls = <<>>
        /\ phyMem = <<>>
        /\ dVal = dArg.old

C21_Witness ==
    /\ DispDone("read_mmd_phy")
    /\ family = OTHER_FAMILY_ID
    /\ dArg.old = W(43981)
    /\ dVal = W(43981)
    /\ dRet = -1

\* C22: every register access, the extended-register accessors of the RTL8218B
\* and RTL8226 PHY drivers included, invokes the back end of the active family
\* and no back end of another family.
C22_OnlyActiveFamily ==
    (dPc = "done" /\ family \in SupportedFamilies) =>
        /\ Len(dCalls) = 1
        /\ dCalls[1][1] = family

\* rtl8218b_write_mmd on an RTL9300 has written through the RTL8380 back end
C22_WrongBackEnd ==
    /\ DispDone("rtl8218b_write_mmd")
    /\ family = RTL9300_FAMILY_ID
    /\ dCalls = <<<<RTL8380_FAMILY_ID, "write_mmd_phy">>>>
    /\ dRet = 0

----------------------------------------------------------------------------
(* The indirect SerDes accesses as whole calls, for the routines built on them *)

\* -EIO as assigned to a u32
SerEIO == Not32(W(EIO - 1))

\* the lane-ready status (page 0x1f, register 20) asserts from the readyAt-th
\* iteration of the loop of rtl9300_force_sds_mode on, or never (readyAt = 0)
SerStatus == IF serEnv.readyAt # 0 /\ serI + 1 >= serEnv.readyAt THEN Bits16 ELSE {}

\* the content of a SerDes register
SerGet(st, a) ==
    IF a[2] = 31 /\ a[3] = 20 THEN SerStatus
    ELSE IF a \in DOMAIN st.mem THEN st.mem[a] ELSE serEnv.fill

\* the command issued by this access, the (Len(log)+1)-th, never completes
SerHangs(st) == serEnv.dead \/ (Len(st.log) + 1) \in serEnv.hang

SerLogged(st, op, a, v) == Append(st.log, [op |-> op, a |-> a, v |-> v])

\* lines 282-301, 323-342: issue the read command, poll up to 100 times, return
\* -EIO or the data register & 0xffff.  A family's function reaches the engine
\* only on that family; elsewhere its registers are not the engine's and the
\* result is whatever those addresses deliver (serEnv.foreign).
SerRead(st, fam, op, a) ==
    The({IF family # fam
         THEN [st |-> [s EXCEPT !.log = SerLogged(s, op, a, serEnv.foreign)],
               ret |-> serEnv.foreign]
         ELSE IF SerHangs(s)
         THEN [st |-> [s EXCEPT !.busy = TRUE, !.log = SerLogged(s, op, a, SerEIO)],
               ret |-> SerEIO]
         ELSE The({[st |-> [s EXCEPT !.busy = FALSE, !.data = d,
                                     !.log = SerLogged(s, op, a, d)],
                    ret |-> And32(d, W(65535))] : d \in {SerGet(s, a)}}) :
         s \in {st}})

rtl930x_read_sds_phy(st, a) == SerRead(st, RTL9300_FAMILY_ID, "rtl930x_read_sds_phy", a)
rtl931x_read_sds_phy(st, a) == SerRead(st, RTL9310_FAMILY_ID, "rtl931x_read_sds_phy", a)

\* lines 303-321: the data register is written, the command never is; the poll
\* sees the busy bit of whatever command was issued before
rtl930x_write_sds_phy(st, a, v) ==
    The({[st |-> [s EXCEPT !.data = v \cap Bits16,
                           !.log = SerLogged(s, "rtl930x_write_sds_phy", a, v \cap Bits16)],
          ret |-> IF family = RTL9300_FAMILY_ID /\ s.busy THEN SerEIO ELSE {}] :
         s \in {st}})

\* lines 344-367: address, data, then start and write bits; poll; -EIO or 0
rtl931x_write_sds_phy(st, a, v) ==
    The({IF SerHangs(s)
         THEN [st |-> [s EXCEPT !.busy = TRUE, !.data = v \cap Bits16,
                                !.log = SerLogged(s, "rtl931x_write_sds_phy", a, v \cap Bits16)],
               ret |-> SerEIO]
         ELSE [st |-> [s EXCEPT !.busy = FALSE, !.data = v \cap Bits16,
                                !.mem = MemPut(@, a, v \cap Bits16),
                                !.log = SerLogged(s, "rtl931x_write_sds_phy", a, v \cap Bits16)],
               ret |-> {}] :
         s \in {st}})

----------------------------------------------------------------------------
(* Bit-field helpers: rtl9300_sds_field_w/_r, rtl9310_sds_field_w/_r *)

\* BIT(l) - 1 for int l = end_bit - start_bit - 1.  A shift by a negative count
\* is undefined: the mask is then whatever the build makes of it (serEnv.ub).
FieldLen(end_bit, start_bit) == end_bit - start_bit - 1
FieldMask(l) == IF l < 0 THEN serEnv.ub ELSE 0..(l - 1)

\* data &= ~(mask << start_bit); data |= (v & mask) << start_bit;
FieldMerge(data, mask, start_bit, v) ==
    Or32(And32(data, Not32(Shl32(mask, start_bit))), Shl32(And32(v, mask), start_bit))

\* lines 1648-1662 and 2100-2114: both helpers read with rtl930x_read_sds_phy
SerFieldW(st, fam, a, end_bit, start_bit, v) ==
    The({IF l < 32
         THEN The({The({IF fam = RTL9300_FAMILY_ID
                        THEN rtl930x_write_sds_phy(r.st, a, data)
                        ELSE rtl931x_write_sds_phy(r.st, a, data) :
                        data \in {FieldMerge(r.ret, FieldMask(l), start_bit, v)}}) :
                   r \in {rtl930x_read_sds_phy(st, a)}})
         ELSE IF fam = RTL9300_FAMILY_ID
              THEN rtl930x_write_sds_phy(st, a, v)
              ELSE rtl931x_write_sds_phy(st, a, v) :
         l \in {FieldLen(end_bit, start_bit)}})

rtl9300_sds_field_w(st, a, end_bit, start_bit, v) ==
    SerFieldW(st, RTL9300_FAMILY_ID, a, end_bit, start_bit, v).st
rtl9310_sds_field_w(st, a, end_bit, start_bit, v) ==
    SerFieldW(st, RTL9310_FAMILY_ID, a, end_bit, start_bit, v).st

\* lines 1664-1674 and 2116-2126
SerFieldR(st, fam, a, end_bit, start_bit) ==
    The({The({[st |-> r.st,
               ret |-> IF l >= 32 THEN r.ret
                       ELSE And32(Shr(r.ret, start_bit), FieldMask(l))] :
              r \in {IF fam = RTL9300_FAMILY_ID
                     THEN rtl930x_read_sds_phy(st, a)
                     ELSE rtl931x_read_sds_phy(st, a)}}) :
         l \in {FieldLen(end_bit, start_bit)}})

rtl9300_sds_field_r(st, a, end_bit, start_bit) ==
    SerFieldR(st, RTL9300_FAMILY_ID, a, end_bit, start_bit)
rtl9310_sds_field_r(st, a, end_bit, start_bit) ==
    SerFieldR(st, RTL9310_FAMILY_ID, a, end_bit, start_bit)

\* the locators, values and register contents the helpers are run with
FieldLocs == {<<15, 0>>, <<11, 7>>, <<5, 4>>, <<6, 6>>}
FieldVals == {W(65535), W(21), {}}
FieldFills == {{}, Bits16, W(42405)}
FieldAddrs == {<<0, 31, 9>>, <<2, 31, 2>>}

\* what a shift by -1 can give for BIT(-1) - 1: the count taken modulo 32
\* (0x7fffffff), a zero result (0xffffffff), or a one (0)
FieldUbMasks == {0..30, Bits32, {}}

FieldEnvs ==
    [hang : {{}, {1}, {3}}, dead : {FALSE}, readyAt : {0}, ub : FieldUbMasks,
     fill : FieldFills, foreign : {SerEIO, {}, W(42405)}]

SerSt0 == [mem |-> <<>>, data |-> {}, busy |-> FALSE, log |-> <<>>]

notSer == <<swreg, sdsVars, pollVars, eeeVars, fwVars, cfgVars, dispVars, statVars,
            concVars, heap, lateVars>>

FieldFamily(op) ==
    IF op = "rtl9300_sds_field" THEN RTL9300_FAMILY_ID ELSE RTL9310_FAMILY_ID

FieldWrite(op) ==
    /\ serOp = op /\ serPc = "field_w"
    /\ serSt' = SerFieldW(serSt, FieldFamily(op), serArg.a, serArg.end_bit,
                          serArg.start_bit, serArg.v).st
    /\ serPc' = "field_r"
    /\ UNCHANGED <<family, serOp, serArg, serEnv, serI, serRet, notSer>>

FieldRead(op) ==
    /\ serOp = op /\ serPc = "field_r"
    /\ \E r \in {SerFieldR(serSt, FieldFamily(op), serArg.a, serArg.end_bit,
                           serArg.start_bit)} :
        /\ serSt' = r.st
        /\ serRet' = r.ret
    /\ serPc' = "done"
    /\ UNCHANGED <<family, serOp, serArg, serEnv, serI, notSer>>

rtl9300_sds_field_w_call == FieldWrite("rtl9300_sds_field")
rtl9300_sds_field_r_call == FieldRead("rtl9300_sds_field")
rtl9310_sds_field_w_call == FieldWrite("rtl9310_sds_field")
rtl9310_sds_field_r_call == FieldRead("rtl9310_sds_field")

NotSerOff ==
    /\ swreg = SwRegsZero
    /\ SdsOff
    /\ PollOff
    /\ EeeOff
    /\ FwOff
    /\ CfgOff
    /\ DispOff
    /\ StatOff
    /\ ConcOff
    /\ HeapOff
    /\ LateOff

FieldInit ==
    /\ serOp \in {"rtl9300_sds_field", "rtl9310_sds_field"}
    /\ family = FieldFamily(serOp)
    /\ \E a \in FieldAddrs, loc \in FieldLocs, v \in FieldVals :
        serArg = [a |-> a, end_bit |-> loc[1], start_bit |-> loc[2], v |-> v]
    /\ serEnv \in FieldEnvs
    /\ serSt = SerSt0
    /\ serPc = "field_w"
    /\ serI = 0
    /\ serRet = {}
    /\ NotSerOff

FieldNext ==
    \/ rtl9300_sds_field_w_call
    \/ rtl9300_sds_field_r_call
    \/ rtl9310_sds_field_w_call
    \/ rtl9310_sds_field_r_call

SpecField == FieldInit /\ [][FieldNext]_vars

\* the field of a locator as the bits it names, and the register a run addresses
FieldBits(end_bit, start_bit) == start_bit..end_bit
FieldReg == SerGet(serSt, serArg.a)
FieldOld == serEnv.fill
FieldNoTimeout == serEnv.hang = {} /\ serEnv.foreign # SerEIO

\* C23: for a locator with end-bit > start-bit and a field narrower than the
\* register, a field write followed by a field read with the same locator
\* returns v masked to the field width, and the register bits outside the field
\* keep their previous value.
C23_FieldRoundTrip ==
    (/\ serPc = "done"
     /\ serOp \in {"rtl9300_sds_field", "rtl9310_sds_field"}
     /\ serArg.end_bit > serArg.start_bit
     /\ serArg.end_bit - serArg.start_bit + 1 < 16
     /\ FieldNoTimeout) =>
        /\ serRet = And32(serArg.v, 0..(serArg.end_bit - serArg.start_bit))
        /\ FieldReg \ FieldBits(serArg.end_bit, serArg.start_bit)
               = FieldOld \ FieldBits(serArg.end_bit, serArg.start_bit)

\* the 5-bit field 11..7 written with 21 (0b10101) over a zero register: the
\* helper hands 0x280 (only 3 bits of v) to the write, and the read gives 0
C23_FieldTruncated ==
    /\ serPc = "done"
    /\ serOp = "rtl9300_sds_field"
    /\ serArg.end_bit = 11 /\ serArg.start_bit = 7 /\ serArg.v = W(21)
    /\ serEnv.fill = {} /\ serEnv.hang = {}
    /\ serSt.log[2].v = W(640)
    /\ serRet = {}

\* C24: a field write with the full-width locator (15, 0) is a raw overwrite (no
\* read precedes the write; the register then holds the written value in all 16
\* bits), a narrower field write is a read-modify-write, and a full-width field
\* read returns the whole register.
C24_FullWidthRaw ==
    (/\ serPc = "done"
     /\ serOp \in {"rtl9300_sds_field", "rtl9310_sds_field"}
     /\ FieldNoTimeout) =>
        IF serArg.end_bit = 15 /\ serArg.start_bit = 0
        THEN /\ serSt.log[1].op \in {"rtl930x_write_sds_phy", "rtl931x_write_sds_phy"}
             /\ FieldReg = serArg.v \cap Bits16
             /\ serRet = FieldReg
        ELSE /\ serSt.log[1].op = "rtl930x_read_sds_phy"
             /\ serSt.log[2].op \in {"rtl930x_write_sds_phy", "rtl931x_write_sds_phy"}

\* the full-width write of 0xffff over a zero register on an RTL9300: a read
\* comes first, 0x3fff is handed to the write, the read-back gives 0
C24_FullWidthMasked ==
    /\ serPc = "done"
    /\ serOp = "rtl9300_sds_field"
    /\ serArg.end_bit = 15 /\ serArg.start_bit = 0 /\ serArg.v = W(65535)
    /\ serEnv.fill = {} /\ serEnv.hang = {}
    /\ serSt.log[1].op = "rtl930x_read_sds_phy"
    /\ serSt.log[2].v = W(16383)
    /\ serRet = {}

\* the read step of the field write returned -EIO
FieldReadTimedOut == Len(serSt.log) >= 1 /\ serSt.log[1].v = SerEIO

\* C25: a field write whose read step timed out writes nothing derived from the
\* error code: no write access follows and the register keeps its content.
C25_NoWriteAfterTimeout ==
    (/\ serPc \in {"field_r", "done"}
     /\ serOp \in {"rtl9300_sds_field", "rtl9310_sds_field"}
     /\ FieldReadTimedOut) =>
        /\ \A i \in DOMAIN serSt.log :
               serSt.log[i].op \notin {"rtl930x_write_sds_phy", "rtl931x_write_sds_phy"}
        /\ FieldReg = FieldOld

\* rtl9310_sds_field_w of field 5..4: the read returned -EIO (0xfffffffb) and
\* the register now holds its low half, 0xfffb
C25_ErrorCodeWritten ==
    /\ serPc = "field_r"
    /\ serOp = "rtl9310_sds_field"
    /\ serArg.end_bit = 5 /\ serArg.start_bit = 4
    /\ FieldReadTimedOut
    /\ serEnv.fill = {}
    /\ FieldReg = W(65531)

----------------------------------------------------------------------------
(* SerDes mode engine on the RTL9300: rtl9300_serdes_setup,                  *)
(* rtl9300_configure_serdes, rtl9300_force_sds_mode                          *)

EINVAL == 22

\* iterations of the toggle/probe loop of rtl9300_force_sds_mode
ForceLimit == 20

\* the calls of a straight-line stretch, as data
CFieldW(a, e, b, v) == [op |-> "field_w", a |-> a, e |-> e, s |-> b, v |-> v, clr |-> {}]
CWrite(a, v) == [op |-> "write", a |-> a, e |-> 0, s |-> 0, v |-> v, clr |-> {}]
CRmw(a, clr, set) == [op |-> "rmw", a |-> a, e |-> 0, s |-> 0, v |-> set, clr |-> clr]
CLink(sds) == [op |-> "link", a |-> <<sds, 0, 0>>, e |-> 0, s |-> 0, v |-> {}, clr |-> {}]
CSw(fn, reg, v) == [op |-> fn, a |-> <<0, 0, reg>>, e |-> 0, s |-> 0, v |-> v, clr |-> {}]

\* v = rtl930x_read_sds_phy(a); v &= ~clr; v |= set; rtl930x_write_sds_phy(a, v);
SerRmw(st, a, clr, set) ==
    The({rtl930x_write_sds_phy(r.st, a, Or32(And32(r.ret, Not32(clr)), set)).st :
         r \in {rtl930x_read_sds_phy(st, a)}})

\* lines 1886-1908, with tx_normal = rx_normal = true
rtl9300_serdes_mac_link_config(st, sds) ==
    The({The({The({The({The({rtl930x_read_sds_phy(w2.st, <<sds, 0, 0>>).st :
        w2 \in {rtl930x_read_sds_phy(w1.st, <<sds, 6, 2>>)}}) :
        w1 \in {rtl930x_write_sds_phy(w0.st, <<sds, 0, 0>>,
                                      And32(v1.ret, Not32(BIT(8) \cup BIT(9))))}}) :
        w0 \in {rtl930x_write_sds_phy(v1.st, <<sds, 6, 2>>,
                                      And32(v10.ret, Not32(BIT(13) \cup BIT(14))))}}) :
        v1 \in {rtl930x_read_sds_phy(v10.st, <<sds, 0, 0>>)}}) :
        v10 \in {rtl930x_read_sds_phy(st, <<sds, 6, 2>>)}})

\* a write to a switch register (mode select, MAC force mode), as a log entry
SerSwitchWrite(st, c) == [st EXCEPT !.log = SerLogged(st, c.op, c.a, c.v)]

SerApply(st, c) ==
    IF c.op = "field_w" THEN rtl9300_sds_field_w(st, c.a, c.e, c.s, c.v)
    ELSE IF c.op = "write" THEN rtl930x_write_sds_phy(st, c.a, c.v).st
    ELSE IF c.op = "rmw" THEN SerRmw(st, c.a, c.clr, c.v)
    ELSE IF c.op = "link" THEN rtl9300_serdes_mac_link_config(st, c.a[1])
    ELSE IF c.op = "rtl9310_sds_field_w" THEN rtl9310_sds_field_w(st, c.a, c.e, c.s, c.v)
    ELSE IF c.op = "rtl931x_write_sds_phy" THEN rtl931x_write_sds_phy(st, c.a, c.v).st
    ELSE IF c.op = "rtl931x_read_sds_phy" THEN rtl931x_read_sds_phy(st, c.a).st
    ELSE SerSwitchWrite(st, c)

\* the calls cs[lo..hi] in order, as two halves
RECURSIVE SerRange(_, _, _, _)
SerRange(st, cs, lo, hi) ==
    IF lo > hi THEN st
    ELSE IF lo = hi THEN SerApply(st, cs[lo])
    ELSE The({SerRange(h, cs, (lo + hi) \div 2 + 1, hi) :
              h \in {SerRange(st, cs, lo, (lo + hi) \div 2)}})

SerAll(st, cs) == The({SerRange(st, c, 1, Len(c)) : c \in {cs}})

\* lines 215-236: regs[] and lsb[] of the mode select registers
SdsRstRegs == <<404, 404, 404, 404, 672, 672, 672, 672, 676, 676, 408, 408>>
SdsRstLsb == <<0, 6, 12, 18, 0, 6, 12, 18, 0, 6, 0, 6>>
rtl9300_sds_rst(sds, mode) ==
    IF sds < 0 \/ sds > 11 THEN <<>>
    ELSE <<CSw("sw_w32_mask", SdsRstRegs[sds + 1], Shl32(W(31), SdsRstLsb[sds + 1])),
           CSw("sw_w32_mask", SdsRstRegs[sds + 1], Shl32(W(mode), SdsRstLsb[sds + 1]))>>

\* lines 1832-1868
rtl9300_sds_tx_config(sds, phy_if) ==
    IF phy_if \notin {"1000BASEX", "HSGMII", "2500BASEX", "10GBASER"} THEN <<>>
    ELSE The({<<CFieldW(<<sds, page, 1>>, 15, 11, W(2)),
                CFieldW(<<sds, page, 7>>, 0, 0, W(1)),
                CFieldW(<<sds, page, 7>>, 8, 4, W(9)),
                CFieldW(<<sds, page, 6>>, 4, 0, W(2)),
                CFieldW(<<sds, page, 7>>, 3, 3, W(1)),
                CFieldW(<<sds, page, 24>>, 15, 12, W(8))>> :
              page \in {IF phy_if = "1000BASEX" THEN 37
                        ELSE IF phy_if = "10GBASER" THEN 47 ELSE 41}})

\* the modes of the switch of rtl9300_force_sds_mode, lines 1690-1727; lc_on and
\* lc_value are left unassigned by some cases and then hold whatever the stack
\* holds (serEnv.lc_on, serEnv.lc_value)
ForceModes == {"SGMII", "HSGMII", "1000BASEX", "2500BASEX", "10GBASER"}
ForceSdsMode(phy_if) ==
    IF phy_if = "SGMII" THEN 2 ELSE IF phy_if = "HSGMII" THEN 18
    ELSE IF phy_if = "1000BASEX" THEN 4 ELSE IF phy_if = "2500BASEX" THEN 22 ELSE 26
ForceLcOn(phy_if) ==
    IF phy_if \in {"SGMII", "1000BASEX"} THEN FALSE
    ELSE IF phy_if = "10GBASER" THEN TRUE ELSE serEnv.lc_on
ForceLcValue(phy_if) ==
    IF phy_if = "SGMII" THEN W(1) ELSE IF phy_if \in {"HSGMII", "2500BASEX"} THEN W(3)
    ELSE IF phy_if = "10GBASER" THEN W(5) ELSE serEnv.lc_value

Lane0(sds) == IF sds % 2 = 1 THEN sds - 1 ELSE sds

\* the same calls with the SerDes switched off first
ForceOff_OffFirst(sds) ==
    <<CFieldW(<<sds, 31, 9>>, 11, 7, W(31)),
      CFieldW(<<sds, 0, 0>>, 7, 6, W(3)),
      CFieldW(<<sds, 31, 9>>, 6, 6, W(1))>>

\* lines 1729-1737: power down, force mode enable, SerDes off
ForceOff(sds) ==
    <<CFieldW(<<sds, 0, 0>>, 7, 6, W(3)),
      CFieldW(<<sds, 31, 9>>, 6, 6, W(1)),
      CFieldW(<<sds, 31, 9>>, 11, 7, W(31))>>

\* lines 1742-1769: LC and ring, then the mode
ForceOn(sds, phy_if) ==
    The({<<CFieldW(<<l0, 32, 18>>, 3, 0, W(15)),
           IF sds = l0 THEN CFieldW(<<l0, 32, 18>>, 5, 4, W(1))
                       ELSE CFieldW(<<l0, 32, 18>>, 7, 6, W(1)),
           CFieldW(<<sds, 32, 0>>, 5, 4, W(3)),
           IF ForceLcOn(phy_if) THEN CFieldW(<<l0, 32, 18>>, 11, 8, ForceLcValue(phy_if))
                                ELSE CFieldW(<<l0, 32, 18>>, 15, 12, ForceLcValue(phy_if)),
           CFieldW(<<l0, 33, 11>>, 3, 0, W(15)),
           IF sds = l0 THEN CFieldW(<<l0, 32, 18>>, 5, 4, IF ForceLcOn(phy_if) THEN W(3) ELSE W(1))
                       ELSE CFieldW(<<l0, 32, 18>>, 7, 6, IF ForceLcOn(phy_if) THEN W(3) ELSE W(1)),
           CFieldW(<<sds, 31, 9>>, 6, 6, W(1)),
           CFieldW(<<sds, 31, 9>>, 11, 7, W(ForceSdsMode(phy_if)))>> :
         l0 \in {Lane0(sds)}})

\* lines 1822-1829: re-enable power, reset SerDes RX
ForceFinal(sds) ==
    <<CFieldW(<<sds, 32, 0>>, 7, 6, {}),
      CFieldW(<<sds, 46, 21>>, 4, 4, W(1)),
      CFieldW(<<sds, 46, 21>>, 4, 4, {})>>

\* lines 1793-1814: the FSM reset and the latch read of a 10GBASE-R lane
ForceLatch(st, sds) ==
    The({The({[st |-> SerAll(v.st, <<CFieldW(<<sds, 6, 1>>, 2, 2, t.ret),
                                      CFieldW(<<sds, 6, 2>>, 12, 12, W(1)),
                                      CFieldW(<<sds, 6, 2>>, 12, 12, {})>>),
               ret |-> v.ret] :
        v \in {rtl9300_sds_field_r(
                   rtl9300_sds_field_r(
                       SerAll(t.st, <<CFieldW(<<sds, 6, 1>>, 2, 2, W(1)),
                                      CFieldW(<<sds, 6, 2>>, 12, 12, W(1)),
                                      CFieldW(<<sds, 6, 2>>, 12, 12, {})>>),
                       <<sds, 5, 0>>, 12, 12).st,
                   <<sds, 5, 0>>, 12, 12)}}) :
        t \in {rtl9300_sds_field_r(st, <<sds, 6, 1>>, 2, 2)}})

\* lines 1816-1819
ForceToggle(sds, phy_if) ==
    The({<<CFieldW(<<Lane0(sds), 33, 11>>, b[1], b[2], W(2)),
           CFieldW(<<Lane0(sds), 33, 11>>, b[1], b[2], W(3))>> :
         b \in {IF phy_if = "10GBASER" THEN <<3, 2>> ELSE <<1, 0>>}})

\* lines 1772-1820: one pass of the loop body; brk tells whether it left by break
ForceBody(st, sds, phy_if) ==
    The({The({The({The({
        IF cr0.ret # {} /\ cr1.ret # {} /\ cr2.ret # {}
        THEN IF phy_if # "10GBASER" THEN [st |-> cr2.st, brk |-> TRUE]
             ELSE The({IF v.ret = W(1) THEN [st |-> v.st, brk |-> TRUE]
                       ELSE [st |-> SerAll(v.st, ForceToggle(sds, phy_if)), brk |-> FALSE] :
                       v \in {ForceLatch(cr2.st, sds)}})
        ELSE [st |-> SerAll(cr2.st, ForceToggle(sds, phy_if)), brk |-> FALSE] :
        cr2 \in {rtl9300_sds_field_r(cr1.st, <<Lane0(sds), 31, 20>>, b, b)}}) :
        cr1 \in {rtl9300_sds_field_r(cr0.st, <<Lane0(sds), 31, 20>>, b, b)}}) :
        cr0 \in {rtl9300_sds_field_r(
                     rtl930x_write_sds_phy(st, <<Lane0(sds), 31, 2>>, W(53)).st,
                     <<Lane0(sds), 31, 20>>, b, b)}}) :
        b \in {IF Lane0(sds) = sds THEN 4 ELSE 5}})

notSerdes == notSer

\* u32 v = rtl930x_read_sds_phy(...); if (v < 0): an unsigned value is never
\* below zero
SerReadFailed_Signed(v) == 31 \in v
SerReadFailed(v) == FALSE

\* lines 1954-1980 and 2059-2085: mode select, link to MAC, the 1G and 10G
\* PHYs enabled, rtl9300_force_sds_mode(sds, PHY_INTERFACE_MODE_NA), TX parameters
SerdesBody(sds, sds_mode, phy_if) ==
    rtl9300_sds_rst(sds, sds_mode)
        \o <<CLink(sds), CRmw(<<sds, 2, 0>>, BIT(11), {}), CRmw(<<sds, 4, 0>>, BIT(11), {})>>
        \o ForceOff(sds)
        \o rtl9300_sds_tx_config(sds, phy_if)

\* sds_mode of the switch at lines 1917-1936
SetupSdsMode(phy_if) ==
    IF phy_if = "HSGMII" THEN 18 ELSE IF phy_if = "1000BASEX" THEN 4
    ELSE IF phy_if = "XGMII" THEN 16 ELSE IF phy_if = "10GBASER" THEN 26 ELSE 13

\* rtl9300_serdes_setup up to its second call of rtl9300_force_sds_mode: lines
\* 1912-1980
rtl9300_serdes_setup ==
    /\ serOp = "rtl9300_serdes_setup" /\ serPc = "entry"
    /\ IF serArg.phy_if \notin {"HSGMII", "1000BASEX", "XGMII", "10GBASER", "USXGMII"}
       THEN /\ serRet' = -EINVAL
            /\ serPc' = "done"
            /\ UNCHANGED serSt
       ELSE \E v \in {rtl930x_read_sds_phy(serSt, <<serArg.sds, 31, 11>>)} :
            IF SerReadFailed(v.ret)
            THEN /\ serRet' = -EINVAL
                 /\ serPc' = "done"
                 /\ serSt' = v.st
            ELSE /\ serSt' = SerAll(rtl930x_write_sds_phy(v.st, <<serArg.sds, 31, 11>>,
                                                          Or32(v.ret, BIT(1))).st,
                                    SerdesBody(serArg.sds, SetupSdsMode(serArg.phy_if),
                                               serArg.phy_if))
                 /\ serPc' = "force"
                 /\ UNCHANGED serRet
    /\ UNCHANGED <<family, serOp, serArg, serEnv, serI, notSerdes>>

\* v |= BIT(0); v &= ~(7 << 3); v |= 4 << 3; v &= ~BIT(1);
MacForceMode(v) == And32(Or32(And32(Or32(v, BIT(0)), Not32(Shl32(W(7), 3))), Shl32(W(4), 3)),
                         Not32(BIT(1)))

\* u32 sds_num; sds_num = -1 when the "sds" property is missing (the lane is
\* then -1 in every callee, which takes an int); if (sds_num < 0): an unsigned
\* value is never below zero
SdsNumBelowZero_Signed(sds_num) == sds_num < 0
SdsNumBelowZero(sds_num) == FALSE

\* rtl9300_configure_serdes up to its second call of rtl9300_force_sds_mode:
\* lines 2006-2085; phy_mode is PHY_INTERFACE_MODE_10GBASER, sds_mode 0x1a
rtl9300_configure_serdes ==
    /\ serOp = "rtl9300_configure_serdes" /\ serPc = "entry"
    /\ IF ~serArg.of_node
       THEN /\ serRet' = -EINVAL
            /\ serPc' = "done"
            /\ UNCHANGED serSt
       ELSE IF SdsNumBelowZero(serArg.sds)
       THEN /\ serRet' = 0
            /\ serPc' = "done"
            /\ UNCHANGED serSt
       ELSE \E v \in {rtl930x_read_sds_phy(serSt, <<serArg.sds, 31, 11>>)} :
            IF SerReadFailed(v.ret)
            THEN /\ serRet' = -EINVAL
                 /\ serPc' = "done"
                 /\ serSt' = v.st
            ELSE /\ serSt' = SerAll(v.st,
                        <<CSw("sw_w32 RTL930X_MAC_FORCE_MODE_CTRL", serArg.phy_addr,
                              MacForceMode(serEnv.fill))>>
                        \o SerdesBody(serArg.sds, 26, "10GBASER"))
                 /\ serPc' = "force"
                 /\ UNCHANGED serRet
    /\ UNCHANGED <<family, serOp, serArg, serEnv, serI, notSerdes>>

\* rtl9300_force_sds_mode up to its loop: lines 1680-1769
rtl9300_force_sds_mode ==
    /\ serPc = "force"
    /\ IF serArg.phy_if \notin ForceModes \cup {"NA"}
       THEN serPc' = "return" /\ UNCHANGED serSt
       ELSE IF serArg.phy_if = "NA"
       THEN serPc' = "return" /\ serSt' = SerAll(serSt, ForceOff(serArg.sds))
       ELSE /\ serPc' = "loop"
            /\ serSt' = SerAll(serSt, ForceOff(serArg.sds)
                                          \o ForceOn(serArg.sds, serArg.phy_if))
    /\ serI' = 0
    /\ UNCHANGED <<family, serOp, serArg, serEnv, serRet, notSerdes>>

\* for (i = 0; i < 20; i++)
ForceLoopCond_21(i) == i < ForceLimit + 1
ForceLoopCond(i) == i < ForceLimit

\* one iteration of the loop
rtl9300_force_sds_mode_loop ==
    /\ serPc = "loop"
    /\ ForceLoopCond(serI)
    /\ \E r \in {ForceBody(serSt, serArg.sds, serArg.phy_if)} :
        /\ serSt' = r.st
        /\ IF r.brk THEN serPc' = "final" /\ serI' = serI
                    ELSE serPc' = "loop" /\ serI' = serI + 1
    /\ UNCHANGED <<family, serOp, serArg, serEnv, serRet, notSerdes>>

\* the writes after the loop: lines 1822-1829
rtl9300_force_sds_mode_final ==
    /\ serPc = "final" \/ (serPc = "loop" /\ ~ForceLoopCond(serI))
    /\ serSt' = SerAll(serSt, ForceFinal(serArg.sds))
    /\ serPc' = "return"
    /\ UNCHANGED <<family, serOp, serArg, serEnv, serI, serRet, notSerdes>>

\* rtl9300_force_sds_mode has returned: a direct call is over; the two setup
\* routines select the mode and return 0 (lines 2000-2004, 2093-2097)
rtl9300_serdes_return ==
    /\ serPc = "return"
    /\ IF serOp = "rtl9300_force_sds_mode"
       THEN UNCHANGED <<serSt, serRet>>
       ELSE /\ serSt' = SerAll(serSt, rtl9300_sds_rst(serArg.sds,
                                  IF serOp = "rtl9300_serdes_setup"
                                  THEN SetupSdsMode(serArg.phy_if) ELSE 26))
            /\ serRet' = 0
    /\ serPc' = "done"
    /\ UNCHANGED <<family, serOp, serArg, serEnv, serI, notSerdes>>

SerdesOps == {"rtl9300_serdes_setup", "rtl9300_configure_serdes", "rtl9300_force_sds_mode"}
SerdesSds == {2, 3}

SerdesArgs(op) ==
    IF op = "rtl9300_serdes_setup"
    THEN [sds : {2}, phy_if : {"HSGMII", "1000BASEX", "XGMII", "10GBASER", "SGMII"},
          of_node : {TRUE}, phy_addr : {24}]
         \cup [sds : {12}, phy_if : {"10GBASER"}, of_node : {TRUE}, phy_addr : {24}]
    ELSE IF op = "rtl9300_configure_serdes"
    THEN [sds : {3}, phy_if : {"10GBASER"}, of_node : BOOLEAN, phy_addr : {24}]
         \cup [sds : {-1}, phy_if : {"10GBASER"}, of_node : {TRUE}, phy_addr : {24}]
    ELSE [sds : SerdesSds, phy_if : ForceModes \cup {"NA", "XGMII"},
          of_node : {TRUE}, phy_addr : {24}]

\* the engine completes every command, or all but the first, or none
SerdesEnvs ==
    [hang : {{}, {1}}, dead : {FALSE}, readyAt : {0, 2}, ub : FieldUbMasks,
     fill : {{}, W(4096)}, foreign : {{}}, lc_on : BOOLEAN, lc_value : {W(65535)}]
    \cup [hang : {{}}, dead : {TRUE}, readyAt : {0, 2}, ub : FieldUbMasks,
          fill : {{}, W(4096)}, foreign : {{}}, lc_on : BOOLEAN, lc_value : {W(65535)}]

SerdesInit ==
    /\ family = RTL9300_FAMILY_ID
    /\ serOp \in SerdesOps
    /\ serArg \in SerdesArgs(serOp)
    /\ serEnv \in SerdesEnvs
    /\ serSt = SerSt0
    /\ serPc = IF serOp = "rtl9300_force_sds_mode" THEN "force" ELSE "entry"
    /\ serI = 0
    /\ serRet = 0
    /\ NotSerOff

SerdesNext ==
    \/ rtl9300_serdes_setup
    \/ rtl9300_configure_serdes
    \/ rtl9300_force_sds_mode
    \/ rtl9300_force_sds_mode_loop
    \/ rtl9300_force_sds_mode_final
    \/ rtl9300_serdes_return

SpecSerdes == SerdesInit /\ [][SerdesNext]_vars

\* the routine runs on a CPU that keeps executing it: every step that is
\* enabled is eventually taken
SpecSerdesLive == SpecSerdes /\ WF_vars(SerdesNext)

SerdesSetupOps == {"rtl9300_serdes_setup", "rtl9300_configure_serdes"}

\* the first indirect access of the routine returned -EIO
SerdesFirstTimedOut == Len(serSt.log) >= 1 /\ serSt.log[1].v = SerEIO

\* C26: when the first indirect access to the lane times out,
\* rtl9300_serdes_setup and rtl9300_configure_serdes return -EINVAL and write no
\* SerDes, mode-select or MAC force-mode register afterwards.
C26_TimeoutAborts ==
    (serPc = "done" /\ serOp \in SerdesSetupOps /\ SerdesFirstTimedOut) =>
        /\ serRet = -EINVAL
        /\ Len(serSt.log) = 1

\* rtl9300_configure_serdes has returned 0 after the timeout, having written the
\* MAC force-mode register and the mode-select register
C26_ContinuesAfterTimeout ==
    /\ serPc = "done"
    /\ serOp = "rtl9300_configure_serdes"
    /\ SerdesFirstTimedOut
    /\ serRet = 0
    /\ serSt.log[2].op = "sw_w32 RTL930X_MAC_FORCE_MODE_CTRL"
    /\ serSt.log[3].op = "sw_w32_mask"

\* rtl9300_force_sds_mode has got past its switch and the NA return, and has
\* returned
ForceRan ==
    /\ serArg.phy_if \in ForceModes
    /\ serPc = "return" \/ (serPc = "done" /\ serOp = "rtl9300_force_sds_mode")

\* the last accesses are those of the power re-enable and the two RX reset
\* writes: each helper call is a read and a write of its register
ForceFinalDone ==
    /\ Len(serSt.log) >= 6
    /\ \A j \in 1..6 :
        LET e == serSt.log[Len(serSt.log) - 6 + j]
        IN /\ e.op = IF j % 2 = 1 THEN "rtl930x_read_sds_phy" ELSE "rtl930x_write_sds_phy"
           /\ e.a = IF j <= 2 THEN <<serArg.sds, 32, 0>> ELSE <<serArg.sds, 46, 21>>

\* C28: rtl9300_force_sds_mode always terminates: the toggle/probe loop runs at
\* most 20 times, and also when the lane-ready status never asserts the final
\* power re-enable and RX reset writes are made and the function returns, with
\* no error signalled (a direct call leaves the return value untouched).
C28_ForceTerminates ==
    /\ [](serI <= ForceLimit)
    /\ [](ForceRan => ForceFinalDone)
    /\ [](serOp = "rtl9300_force_sds_mode" => serRet = 0)
    /\ (serPc = "force" ~> serPc = "done")

\* the status never asserted: 20 passes, then the final writes and the return
C28_Witness ==
    /\ serOp = "rtl9300_force_sds_mode"
    /\ serPc = "done"
    /\ serArg.phy_if = "10GBASER"
    /\ serEnv.readyAt = 0 /\ ~serEnv.dead /\ serEnv.hang = {}
    /\ serI = ForceLimit
    /\ ForceFinalDone

----------------------------------------------------------------------------
(* Link status of the RTL8226: rtl8226_read_status *)

MMD_VEND2 == 31

\* the link register 0xA402 and the status register 0xA434 of the port
StatLinkReg(port) == <<"mmd", port, MMD_VEND2, 41986>>
StatReg(port) == <<"mmd", port, MMD_VEND2, 42036>>

\* what the stack holds where u32 val lives, and the register contents offered
StatGarbage == {{}, W(4), Bits32}
StatLinks == {{}, W(4)}
StatStatus == {{}, W(24), W(544), W(1584)}

notStat == <<swreg, sdsVars, pollVars, phyFill, eOp, ePort, eArg, ePc, ePollState,
             eLog, eRet, fwVars, phyFailAt, phyReadyAt, cOp, cMac, cPc, cVal, cLog,
             cStage, cSw, cWhy, cRet, serVars, concVars, heap, lateVars>>

\* lines 476-482: for (i = 0; i < 2; i++) read_mmd_phy(port, MMD_VEND2, 0xA402, &val);
\* the result of the call is dropped.  After the second pass
\* phydev->link = val & BIT(2) ? 1 : 0; if (!phydev->link) goto out;
rtl8226_read_status_link ==
    /\ dFn = "rtl8226_read_status" /\ dPc = "link"
    /\ rsLocal.i < 2
    /\ \E ret \in {0, -1, -EIO} :
        /\ DispSwitch("read_mmd_phy", StatLinkReg(dArg.port), {}, ret)
        /\ rsLocal' = [i |-> rsLocal.i + 1, failed |-> rsLocal.failed \/ ret # 0]
    /\ IF rsLocal.i + 1 < 2
       THEN UNCHANGED <<phydev, dPc>>
       ELSE /\ phydev' = [phydev EXCEPT !.link = IF 2 \in dVal' THEN 1 ELSE 0]
            /\ dPc' = IF 2 \in dVal' THEN "duplex" ELSE "done"
    /\ UNCHANGED <<family, dFn, dArg, dRet, notStat>>

\* lines 484-488: ret = read_mmd_phy(..., 0xA434, &val); if (ret) goto out;
\* phydev->duplex = !!(val & BIT(3));
rtl8226_read_status_duplex ==
    /\ dFn = "rtl8226_read_status" /\ dPc = "duplex"
    /\ \E ret \in {0, -1, -EIO} :
        /\ DispSwitch("read_mmd_phy", StatReg(dArg.port), {}, ret)
        /\ rsLocal' = [rsLocal EXCEPT !.failed = @ \/ ret # 0]
        /\ dRet' = ret
        /\ IF ret # 0
           THEN dPc' = "done" /\ UNCHANGED phydev
           ELSE /\ dPc' = "speed"
                /\ phydev' = [phydev EXCEPT !.duplex = IF 3 \in dVal' THEN 1 ELSE 0]
    /\ UNCHANGED <<family, dFn, dArg, notStat>>

\* switch (val & 0x0630)
StatSpeed(val, old) ==
    The({IF v = {} THEN 10 ELSE IF v = W(16) THEN 100 ELSE IF v = W(32) THEN 1000
         ELSE IF v = W(512) THEN 10000 ELSE IF v = W(528) THEN 2500
         ELSE IF v = W(544) THEN 5000 ELSE old :
         v \in {And32(val, W(1584))}})

\* lines 490-515: ret = read_mmd_phy(..., 0xA434, &val); the switch; return ret
rtl8226_read_status_speed ==
    /\ dFn = "rtl8226_read_status" /\ dPc = "speed"
    /\ \E ret \in {0, -1, -EIO} :
        /\ DispSwitch("read_mmd_phy", StatReg(dArg.port), {}, ret)
        /\ rsLocal' = [rsLocal EXCEPT !.failed = @ \/ ret # 0]
        /\ dRet' = ret
    /\ phydev' = [phydev EXCEPT !.speed = StatSpeed(dVal', @)]
    /\ dPc' = "done"
    /\ UNCHANGED <<family, dFn, dArg, notStat>>

StatInit ==
    /\ family \in Families
    /\ swreg = SwRegsZero
    /\ dFn = "rtl8226_read_status"
    /\ dArg \in [port : {0, 24}]
    /\ \E l \in StatLinks, st \in StatStatus :
        phyMem = (StatLinkReg(dArg.port) :> l) @@ (StatReg(dArg.port) :> st)
    /\ phyFill = {}
    /\ dVal \in StatGarbage
    /\ dCalls = <<>>
    /\ dRet = 0
    /\ dPc = "link"
    /\ phydev \in [link : {0, 1}, duplex : {0}, speed : {-1}]
    /\ rsLocal = [i |-> 0, failed |-> FALSE]
    /\ eOp = "none" /\ ePort = 0 /\ eArg = FALSE /\ ePc = "off"
    /\ ePollState = {} /\ eLog = <<>> /\ eRet = 0
    /\ SdsOff
    /\ PollOff
    /\ FwOff
    /\ CfgOff
    /\ SerOff
    /\ ConcOff
    /\ HeapOff
    /\ LateOff

StatNext ==
    \/ rtl8226_read_status_link
    \/ rtl8226_read_status_duplex
    \/ rtl8226_read_status_speed

SpecStat == StatInit /\ [][StatNext]_vars

\* C27: in rtl8226_read_status a failure of any register read (link, duplex or
\* speed) gives link reported down and a zero return value: a failed read never
\* yields link up and never makes the call return an error.
C27_FailedReadMeansLinkDown ==
    (dFn = "rtl8226_read_status" /\ dPc = "done" /\ rsLocal.failed) =>
        /\ phydev.link = 0
        /\ dRet = 0

\* both link reads failed and val held a word with bit 2 set: link is up, the
\* duplex read then failed and the call returned its error
C27_LinkUpAfterFailure ==
    /\ dFn = "rtl8226_read_status" /\ dPc = "done"
    /\ dVal = W(4)
    /\ MemGet(phyMem, StatLinkReg(dArg.port)) = {}
    /\ phydev.link = 1
    /\ dRet = -EIO

----------------------------------------------------------------------------
(* Two threads in the indirect SerDes access functions.  Each step is one    *)
(* access to the command or data register; the functions take no lock.       *)

\* polls by which the engine has finished a command
ConcLatency == 2

\* thread 1 addresses lane 0, page 0, register 2; thread 2 lane 1, page 6,
\* register 19
ConcAddr(t) == IF t = 1 THEN <<0, 0, 2>> ELSE <<1, 6, 19>>
ConcVal(t) == IF t = 1 THEN 4660 ELSE 65535

notConc == <<sdsFn, sdsArg, sdsPc, sdsI, sdsRet, sdsTrace, pollVars, eeeVars, fwVars,
             cfgVars, dispVars, serVars, statVars, heap, lateVars>>

\* sw_w32 by thread t: a command word with the start bit starts the engine
ConcWrite(t, val, reg) ==
    /\ swreg' = sw_w32(val, reg, swreg)
    /\ ccTrace' = Append(ccTrace, t)
    /\ IF reg \in SdsCmdRegs /\ SdsCmdHasStart(val)
       THEN hwBusy' = TRUE /\ hwPending' = val
       ELSE UNCHANGED <<hwBusy, hwPending>>

ConcAt(t, fns, pc) == ccFn[t] \in fns /\ ccPc[t] = pc

ConcGoto(t, pc) ==
    /\ ccPc' = [ccPc EXCEPT ![t] = pc]
    /\ UNCHANGED <<family, ccFn, ccArg, notConc>>

\* the engine finishes the command it holds
ConcHwComplete ==
    /\ hwBusy
    /\ \E t \in Threads : ccPc[t] # "done"
    /\ hwBusy' = FALSE
    /\ LET a == SdsCmdAddr(hwPending)
           d == SdsDataReg(family)
       IN IF SdsCmdIsWrite(hwPending)
          THEN /\ sdsMem' = [sdsMem EXCEPT ![a] = N(swreg[d] \cap Bits16)]
               /\ UNCHANGED swreg
          ELSE /\ swreg' = sw_w32(W(sdsMem[a]), d, swreg)
               /\ UNCHANGED sdsMem
    /\ UNCHANGED <<family, hwPending, concVars, notConc>>

\* lines 285-288, 326-329: sw_w32(cmd, <command register>)
ConcReadIssue(t) ==
    /\ ConcAt(t, {"rtl930x_read_sds_phy", "rtl931x_read_sds_phy"}, "entry")
    /\ ConcWrite(t, SdsCmdWord(ccArg[t].a, 1), SdsCmdReg(family))
    /\ ccI' = [ccI EXCEPT ![t] = 0]
    /\ ConcGoto(t, "poll")
    /\ UNCHANGED <<sdsMem, ccCmd, ccRet>>

\* line 308: sw_w32(v, RTL930X_SDS_INDACS_DATA); the command is never written
Conc930xWriteData(t) ==
    /\ ConcAt(t, {"rtl930x_write_sds_phy"}, "entry")
    /\ ConcWrite(t, W(ccArg[t].v), "RTL930X_SDS_INDACS_DATA")
    /\ ccI' = [ccI EXCEPT ![t] = 0]
    /\ ConcGoto(t, "poll")
    /\ UNCHANGED <<sdsMem, ccCmd, ccRet>>

\* lines 349-350
Conc931xWriteAddr(t) ==
    /\ ConcAt(t, {"rtl931x_write_sds_phy"}, "entry")
    /\ ConcWrite(t, SdsCmdWord(ccArg[t].a, 0), "RTL931X_SERDES_INDRT_ACCESS_CTRL")
    /\ ConcGoto(t, "data")
    /\ UNCHANGED <<sdsMem, ccI, ccCmd, ccRet>>

\* line 352
Conc931xWriteData(t) ==
    /\ ConcAt(t, {"rtl931x_write_sds_phy"}, "data")
    /\ ConcWrite(t, W(ccArg[t].v), "RTL931X_SERDES_INDRT_DATA_CTRL")
    /\ ConcGoto(t, "start_r")
    /\ UNCHANGED <<sdsMem, ccI, ccCmd, ccRet>>

\* line 354: cmd = sw_r32(RTL931X_SERDES_INDRT_ACCESS_CTRL) | 0x3;
Conc931xWriteCmd(t) ==
    /\ ConcAt(t, {"rtl931x_write_sds_phy"}, "start_r")
    /\ ccCmd' = [ccCmd EXCEPT ![t] = Or32(sw_r32("RTL931X_SERDES_INDRT_ACCESS_CTRL"), W(3))]
    /\ ccTrace' = Append(ccTrace, t)
    /\ ConcGoto(t, "start_w")
    /\ UNCHANGED <<swreg, hwBusy, hwPending, sdsMem, ccI, ccRet>>

\* line 355: sw_w32(cmd, RTL931X_SERDES_INDRT_ACCESS_CTRL);
Conc931xWriteStart(t) ==
    /\ ConcAt(t, {"rtl931x_write_sds_phy"}, "start_w")
    /\ ConcWrite(t, ccCmd[t], "RTL931X_SERDES_INDRT_ACCESS_CTRL")
    /\ ccI' = [ccI EXCEPT ![t] = 0]
    /\ ConcGoto(t, "poll")
    /\ UNCHANGED <<sdsMem, ccCmd, ccRet>>

\* one pass of the polling loop; the engine is done within ConcLatency polls
ConcPoll(t) ==
    /\ ConcAt(t, SdsFns, "poll")
    /\ SdsLoopCond(ccI[t])
    /\ hwBusy => ccI[t] < ConcLatency
    /\ ccTrace' = Append(ccTrace, t)
    /\ IF And32(sw_r32(SdsCmdReg(family)), W(1)) = {}
       THEN ccPc' = [ccPc EXCEPT ![t] = "after"] /\ UNCHANGED ccI
       ELSE ccI' = [ccI EXCEPT ![t] = @ + 1] /\ UNCHANGED ccPc
    /\ UNCHANGED <<family, swreg, hwBusy, hwPending, sdsMem, ccFn, ccArg, ccCmd, ccRet,
                   notConc>>

\* lines 296-300, 337-341: -EIO, or the data register & 0xffff
ConcReadReturn(t) ==
    /\ ConcAt(t, {"rtl930x_read_sds_phy", "rtl931x_read_sds_phy"}, "after")
    /\ ccRet' = [ccRet EXCEPT ![t] = IF SdsTimedOut(ccI[t]) THEN -EIO
                                     ELSE SdsResult(sw_r32(SdsDataReg(family)))]
    /\ ccTrace' = Append(ccTrace, t)
    /\ ConcGoto(t, "done")
    /\ UNCHANGED <<swreg, hwBusy, hwPending, sdsMem, ccI, ccCmd>>

\* lines 317-320, 363-366
ConcWriteReturn(t) ==
    /\ ConcAt(t, {"rtl930x_write_sds_phy", "rtl931x_write_sds_phy"}, "after")
    /\ ccRet' = [ccRet EXCEPT ![t] = IF SdsTimedOut(ccI[t]) THEN -EIO ELSE 0]
    /\ ConcGoto(t, "done")
    /\ UNCHANGED <<swreg, hwBusy, hwPending, sdsMem, ccI, ccCmd, ccTrace>>

ConcInit ==
    /\ family \in {RTL9300_FAMILY_ID, RTL9310_FAMILY_ID}
    /\ swreg = SwRegsZero
    /\ hwBusy = FALSE
    /\ hwPending = {}
    /\ \E seed \in SdsSeeds :
        /\ sdsMem = SdsMemInit(seed)
        /\ ccArg = [t \in Threads |-> [a |-> ConcAddr(t), v |-> ConcVal(t), seed |-> seed]]
    /\ ccFn \in [Threads -> {fn \in SdsFns : SdsFamily(fn) = family}]
    /\ ccPc = [t \in Threads |-> "entry"]
    /\ ccI = [t \in Threads |-> 0]
    /\ ccCmd = [t \in Threads |-> {}]
    /\ ccRet = [t \in Threads |-> 0]
    /\ ccTrace = <<>>
    /\ sdsFn = "none"
    /\ sdsArg = [a |-> <<0, 0, 2>>, v |-> 0]
    /\ sdsPc = "off"
    /\ sdsI = 0
    /\ sdsRet = 0
    /\ sdsTrace = <<>>
    /\ PollOff
    /\ EeeOff
    /\ FwOff
    /\ CfgOff
    /\ DispOff
    /\ SerOff
    /\ StatOff
    /\ HeapOff
    /\ LateOff

ConcNext ==
    \/ ConcHwComplete
    \/ \E t \in Threads : ConcReadIssue(t)
    \/ \E t \in Threads : Conc930xWriteData(t)
    \/ \E t \in Threads : Conc931xWriteAddr(t)
    \/ \E t \in Threads : Conc931xWriteData(t)
    \/ \E t \in Threads : Conc931xWriteCmd(t)
    \/ \E t \in Threads : Conc931xWriteStart(t)
    \/ \E t \in Threads : ConcPoll(t)
    \/ \E t \in Threads : ConcReadReturn(t)
    \/ \E t \in Threads : ConcWriteReturn(t)

SpecConc == ConcInit /\ [][ConcNext]_vars

\* the register operations of each access are consecutive in the trace
ConcNotInterleaved ==
    \A i, j, k \in DOMAIN ccTrace :
        (i < j /\ j < k /\ ccTrace[i] = ccTrace[k]) => ccTrace[j] = ccTrace[i]

ConcIsRead(t) == ccFn[t] \in {"rtl930x_read_sds_phy", "rtl931x_read_sds_phy"}
ConcOther(t) == 3 - t

\* C29: with two threads in indirect SerDes accesses, the command and data
\* register operations of one access are never interleaved with those of the
\* other, so every read returns the content of the register it addressed and
\* every write stores its own value at its own address (and nowhere else).
C29_AccessesAtomic ==
    /\ ConcNotInterleaved
    /\ \A t \in Threads :
        ccPc[t] = "done" =>
            IF ConcIsRead(t)
            THEN ccRet[t] = SdsMemInit(ccArg[t].seed)[ccArg[t].a]
            ELSE /\ ccRet[t] = 0
                 /\ sdsMem[ccArg[t].a] = ccArg[t].v
                 /\ ConcIsRead(ConcOther(t)) =>
                        sdsMem[ccArg[ConcOther(t)].a]
                            = SdsMemInit(ccArg[t].seed)[ccArg[ConcOther(t)].a]

\* two reads on an RTL9310: thread 1 has returned the content of the register
\* thread 2 addressed
C29_CrossedRead ==
    /\ family = RTL9310_FAMILY_ID
    /\ ConcIsRead(1) /\ ConcIsRead(2)
    /\ ccPc[1] = "done"
    /\ ccRet[1] = SdsMemInit(ccArg[1].seed)[ccArg[2].a]

\* a write and a read on an RTL9310: the value of thread 1 is stored in the
\* register thread 2 addressed, and its own register is unchanged
C29_MisdirectedWrite ==
    /\ family = RTL9310_FAMILY_ID
    /\ ~ConcIsRead(1) /\ ConcIsRead(2)
    /\ ccPc[1] = "done" /\ ccRet[1] = 0
    /\ sdsMem[ccArg[2].a] = ccArg[1].v
    /\ sdsMem[ccArg[1].a] = SdsMemInit(ccArg[1].seed)[ccArg[1].a]

----------------------------------------------------------------------------
(* The patch lists and the end of the firmware image *)

\* the index of the entry that ends the list of triples at h->parts[0]
RECURSIVE CfgTriplesReach(_, _)
CfgTriplesReach(img, i) ==
    IF CfgTripleEnd(CfgWord(img, 0, 3 * i), CfgWord(img, 0, 3 * i + 1)) THEN i
    ELSE CfgTriplesReach(img, i + 1)

\* the lists a routine walks: lines 756-760, 848-852, 1379-1383, 1530-1552
CfgPairLists(op) ==
    IF op = "rtl8380_configure_int_rtl8218b" THEN {8, 9}
    ELSE IF op = "rtl8380_configure_serdes" THEN 0..7 ELSE {1}

\* walking its lists, the routine reads a closing entry that is not inside the
\* image
CfgOverrun(op, img) ==
    \/ \E part \in CfgPairLists(op) :
        CfgWordAt(img, part, 2 * Len(CfgPairsApplied(img, part, 0))) + 4 > Len(img)
    \/ /\ op \in {"rtl8380_configure_ext_rtl8218b", "rtl8380_configure_rtl8214fc"}
       /\ CfgWordAt(img, 0, 3 * CfgTriplesReach(img, 0)) + 4 > Len(img)

\* the routine has got as far as loading the image, and the image has a header
CfgOffered == fwPc = "done" /\ fwAvail /\ Len(fwOrig) >= FwHeaderSize

\* C30: an image whose region offset lies past its end, or whose list has no
\* closing entry before its end, makes the configure routine fail as an invalid
\* firmware, and no list traversal reads a word outside the image buffer.
C30_OverrunRejected ==
    (cPc = "done" /\ CfgOffered /\ CfgOverrun(cOp, fwOrig)) =>
        /\ cRet = -1
        /\ cWhy \in {"fw", "target"}

\* rtl8380_configure_int_rtl8218b has returned 0 for an image whose regions
\* start at its end, and has written the words that follow the buffer to the
\* PHY (register 1 = 31 is the first of them)
C30_ReadBeyondImage ==
    /\ cPc = "done"
    /\ cOp = "rtl8380_configure_int_rtl8218b"
    /\ CfgOffered
    /\ CfgWordAt(fwOrig, 8, 0) = Len(fwOrig)
    /\ heap # <<>>
    /\ cRet = 0
    /\ \E i \in DOMAIN cLog :
        cLog[i] = [e |-> "write_phy", k |-> <<"phy", cMac, 4095, 1>>, v |-> W(31)]

----------------------------------------------------------------------------
(* The RTL839x SerDes shadow register: rtl839x_read_sds_phy and               *)
(* rtl839x_write_sds_phy                                                      *)

notS839 == <<family, swreg, sdsVars, pollVars, eeeVars, fwVars, cfgVars, dispVars,
             serVars, statVars, concVars, heap, eGet>>

\* soc_info.id of the RTL8393, and the PHY identifier simulated for it
RTL8393_ID == 33683
XsgPhyId2 == 28

\* the chips, lanes, registers and values exercised
XsgIds == {RTL8393_ID, 33681, 33682}
XsgLanes == {48, 49}
XsgRegs == {0, 1, 2, 3, 4, 5, 30, 31}
XsgVals == {4660, 65535}

\* lines 248-249, 392-393
XsgOffset(phy_addr) == IF phy_addr = 49 THEN 256 ELSE 0

\* lines 268-269, 395, 400: offset + 0x80 + ((phy_reg << 1) & 0xfc)
XsgWord(phy_addr, phy_reg) ==
    XsgOffset(phy_addr) + 128 + N(And32(Shl32(W(phy_reg), 1), W(252)))

\* the words of the shadow register that hold the registers 0..31 of both lanes
XsgWords == {o + 128 + 4 * k : o \in {0, 256}, k \in 0..15}

\* the contents the shadow register may have: all zero, all one, or in every word
\* its own offset in the low half and the offset plus one in the high half
XsgFills == {"zero", "ones", "offsets"}
XsgInit(fill) ==
    [o \in XsgWords |->
        IF fill = "zero" THEN {}
        ELSE IF fill = "ones" THEN Bits32
        ELSE Or32(W(o), Shl32(W(o + 1), 16))]

\* line 255, 256, 258: the registers whose content is simulated
XsgSimulated_AnyChip(id, phy_reg) == phy_reg \in {2, 3}
XsgSimulated(id, phy_reg) == id = RTL8393_ID /\ phy_reg \in {2, 3}

\* lines 242-276
rtl839x_read_sds_phy ==
    /\ r9Pc = "call" /\ r9Fn = "rtl839x_read_sds_phy"
    /\ IF XsgSimulated(soc_id, r9Arg.phy_reg)
       THEN /\ r9Ret' = IF r9Arg.phy_reg = 2 THEN XsgPhyId2 ELSE RTL8393_ID
            /\ r9Acc' = r9Acc
       ELSE \E o \in {XsgWord(r9Arg.phy_addr, r9Arg.phy_reg)} :
            /\ r9Ret' = N(IF 0 \in W(r9Arg.phy_reg)
                          THEN And32(Shr(xsg[o], 16), Bits16)
                          ELSE And32(xsg[o], Bits16))
            /\ r9Acc' = Append(r9Acc, o)
    /\ r9Pc' = "done"
    /\ UNCHANGED <<soc_id, xsg, r9Fn, r9Arg>>
    /\ UNCHANGED notS839

\* lines 386-407
rtl839x_write_sds_phy ==
    /\ r9Pc = "call" /\ r9Fn = "rtl839x_write_sds_phy"
    /\ \E o \in {XsgWord(r9Arg.phy_addr, r9Arg.phy_reg)} :
        /\ xsg' = [xsg EXCEPT ![o] =
                      IF 0 \in W(r9Arg.phy_reg)
                      THEN Or32(And32(@, Not32(Shl32(Bits16, 16))),
                                Shl32(And32(W(r9Arg.v), Bits16), 16))
                      ELSE Or32(And32(@, Not32(Bits16)), And32(W(r9Arg.v), Bits16))]
        /\ r9Acc' = Append(r9Acc, o)
    /\ r9Ret' = 0
    /\ r9Pc' = "written"
    /\ UNCHANGED <<soc_id, r9Fn, r9Arg>>
    /\ UNCHANGED notS839

\* the caller reads a register of the lane it has written to
XsgReadBack ==
    /\ r9Pc = "written"
    /\ r9Fn' = "rtl839x_read_sds_phy"
    /\ \E reg \in {r9Arg.phy_reg, 3} :
        r9Arg' = [r9Arg EXCEPT !.phy_reg = reg]
    /\ r9Acc' = <<>>
    /\ r9Pc' = "call"
    /\ UNCHANGED <<soc_id, xsg, r9Ret>>
    /\ UNCHANGED notS839

S839Init ==
    /\ family = RTL8390_FAMILY_ID
    /\ swreg = SwRegsZero
    /\ soc_id \in XsgIds
    /\ \E fill \in XsgFills : xsg = XsgInit(fill)
    /\ r9Fn \in {"rtl839x_read_sds_phy", "rtl839x_write_sds_phy"}
    /\ r9Arg \in [phy_addr : XsgLanes, phy_reg : XsgRegs, v : XsgVals]
    /\ r9Ret = 0
    /\ r9Acc = <<>>
    /\ r9Pc = "call"
    /\ SdsOff
    /\ PollOff
    /\ EeeOff
    /\ FwOff
    /\ CfgOff
    /\ DispOff
    /\ SerOff
    /\ StatOff
    /\ ConcOff
    /\ HeapOff
    /\ GetOff

S839Next ==
    \/ rtl839x_read_sds_phy
    \/ rtl839x_write_sds_phy
    \/ XsgReadBack

SpecS839 == S839Init /\ [][S839Next]_vars

\* the 16-bit half of the shadow word that the register number selects: two
\* registers to a word, the odd one in the high half
XsgHalf(phy_addr, phy_reg) ==
    N({b \in Bits16 :
          (b + 16 * (phy_reg % 2)) \in
              xsg[XsgOffset(phy_addr) + 128 + 4 * (phy_reg \div 2)]})

XsgReadDone == r9Pc = "done" /\ r9Fn = "rtl839x_read_sds_phy"

\* C31: on chip revision 0x8393 rtl839x_read_sds_phy returns 0x1c for register 2
\* and 0x8393 for register 3, for every lane and every content of the shadow
\* register and without a register access; for every other register, and for
\* registers 2 and 3 of another chip revision, it returns the 16-bit half of the
\* shadow word that the register number selects.
C31_SimulatedPhyId ==
    XsgReadDone =>
        IF soc_id = RTL8393_ID /\ r9Arg.phy_reg = 2
            THEN r9Ret = 28 /\ r9Acc = <<>>
        ELSE IF soc_id = RTL8393_ID /\ r9Arg.phy_reg = 3
            THEN r9Ret = 33683 /\ r9Acc = <<>>
        ELSE /\ r9Ret = XsgHalf(r9Arg.phy_addr, r9Arg.phy_reg)
             /\ Len(r9Acc) = 1

\* register 3 of lane 49 was written with 0xffff and is then read on an RTL8393
C31_Witness ==
    /\ XsgReadDone
    /\ soc_id = RTL8393_ID
    /\ r9Arg.phy_addr = 49 /\ r9Arg.phy_reg = 3
    /\ XsgHalf(49, 3) = 65535
    /\ r9Ret = RTL8393_ID

----------------------------------------------------------------------------
(* An EEE set operation whose disable_polling and resume_polling run step by  *)
(* step under poll_lock, beside another operation's disable / resume pair     *)

EeeSetOps == EeeOps \ {"rtl8214fc_set_port"}

PollRegNames == {"RTL838X_SMI_POLL_CTRL", "RTL839X_SMI_PORT_POLLING_CTRL",
                 "RTL839X_SMI_PORT_POLLING_CTRL_4", "RTL930X_SMI_POLL_CTRL"}

\* every polling register of the register file holds the mask
PollRegsAll(mask) ==
    [r \in SwRegs |-> IF r \in PollRegNames THEN Trunc32(mask) ELSE {}]

\* the operation is at its call of disable_polling: lines 625, 1196, 1260, 1312
EeeAtDisable ==
    /\ eOp \in EeeSetOps
    /\ \/ ePc = "disable"
       \/ ePc = "entry" /\ eOp # "rtl8214fc_set_eee"

\* the steps of disable_polling(port) called by the operation, lines 109-139
EeeLk_disable_polling ==
    /\ EeeAtDisable
    /\ \/ disable_polling_lock(1)
       \/ disable_polling_read(1)
       \/ disable_polling_clear(1)
       \/ disable_polling_unlock(1)

\* poll_state = disable_polling(port): the value returned is stored
EeeLk_disabled ==
    /\ EeeAtDisable
    /\ pPc[1] = "disabled"
    /\ \E ps \in {pSaved[1] \cap EeePollStateBits(eOp)} :
        /\ ePollState' = ps
        /\ pSaved' = [pSaved EXCEPT ![1] = ps]
    /\ eLog' = Append(eLog, [e |-> "disable_polling", k |-> ePort, v |-> {}])
    /\ ePc' = "body"
    /\ UNCHANGED <<family, swreg, poll_lock, pPc, pPort, pPre, poll0>>
    /\ UNCHANGED <<phyMem, phyFill, eOp, ePort, eArg, eRet>>
    /\ UNCHANGED <<sdsVars, fwVars, cfgVars, moreVars>>

\* the steps of resume_polling(poll_state) called by the operation, lines 141-164
EeeLk_resume_polling ==
    /\ eOp \in EeeSetOps
    /\ ePc = "resume"
    /\ \/ resume_polling_lock(1)
       \/ resume_polling_write(1)
       \/ resume_polling_unlock(1)

\* return 0
EeeLk_return ==
    /\ eOp \in EeeSetOps
    /\ ePc = "resume"
    /\ pPc[1] = "done"
    /\ eLog' = Append(eLog, [e |-> "resume_polling", k |-> ePort, v |-> ePollState])
    /\ ePc' = "done"
    /\ eRet' = 0
    /\ UNCHANGED <<family, swreg, pollVars>>
    /\ UNCHANGED <<phyMem, phyFill, eOp, ePort, eArg, ePollState>>
    /\ UNCHANGED <<sdsVars, fwVars, cfgVars, moreVars>>

\* the operation, thread 1
EeeLkOperation ==
    \/ rtl8214fc_set_eee_check
    \/ EeeLk_disable_polling
    \/ EeeLk_disabled
    \/ EeeRun
    \/ EeeLk_resume_polling
    \/ EeeLk_return

\* the disable_polling / resume_polling pair of another operation, thread 2
EeeLkOther ==
    \/ disable_polling_lock(2)
    \/ disable_polling_read(2)
    \/ disable_polling_clear(2)
    \/ disable_polling_unlock(2)
    \/ resume_polling_lock(2)
    \/ resume_polling_write(2)
    \/ resume_polling_unlock(2)

EeeLkFamilies == {RTL9310_FAMILY_ID, RTL8380_FAMILY_ID}

EeeLkInit ==
    /\ family \in EeeLkFamilies
    /\ \E m \in {0..27, {p \in 0..27 : p % 2 = 0}} :
        swreg = IF family = RTL9310_FAMILY_ID THEN PollRegsAll(m)
                ELSE PollRegsOf(family, m)
    /\ poll_lock = 0
    /\ pPc = [t \in Threads |-> "idle"]
    /\ pPort = [t \in Threads |-> IF t = 1 THEN 8 ELSE 0]
    /\ pSaved \in [Threads -> PollUninit]
    /\ pPre = [t \in Threads |-> swreg]
    /\ poll0 = swreg
    /\ phyMem = <<>>
    /\ phyFill \in {{}, Bits16}
    /\ eOp \in EeeSetOps
    /\ ePort = 8
    /\ eArg \in BOOLEAN
    /\ ePc = "entry"
    /\ ePollState = pSaved[1] \cap EeePollStateBits(eOp)
    /\ eLog = <<>>
    /\ eRet = 0
    /\ SdsOff
    /\ FwOff
    /\ CfgOff
    /\ MoreOff

EeeLkNext == EeeLkOperation \/ EeeLkOther

SpecEeeLk == EeeLkInit /\ [][EeeLkNext]_vars

\* Each operation runs on a CPU that executes its steps, and mutex_lock returns
\* once the lock stays free: weak fairness of each thread's steps.
SpecEeeLkLive == SpecEeeLk /\ WF_vars(EeeLkOperation) /\ WF_vars(EeeLkOther)

\* the operation is inside disable_polling or resume_polling
EeeLkInCall == pPc[1] \in {"d_read", "d_clear", "d_unlock", "r_write", "r_unlock"}

\* C32: on an RTL9310, where disabling the polling is not implemented,
\* disable_polling and resume_polling change no polling register, they still take
\* poll_lock and release it, and every EEE set operation that brackets itself with
\* them runs to completion.
C32_NoOpTolerated ==
    /\ [][family = RTL9310_FAMILY_ID => swreg' = swreg]_vars
    /\ [](family = RTL9310_FAMILY_ID =>
            /\ EeeLkInCall => poll_lock = 1
            /\ pPc[1] \in {"disabled", "done"} => poll_lock # 1
            /\ ePc = "done" => poll_lock # 1)
    /\ [](family = RTL9310_FAMILY_ID => <>(ePc = "done"))
    /\ []((family = RTL9310_FAMILY_ID /\ ePc = "done" /\ eLog # <<>>
             /\ eLog[Len(eLog)].e = "resume_polling") => eRet = 0)

\* rtl8218b_set_eee has returned 0 on an RTL9310 while the other operation is
\* still between its disable and resume, and the registers are as at the start
C32_Witness ==
    /\ family = RTL9310_FAMILY_ID
    /\ eOp = "rtl8218b_set_eee"
    /\ ePc = "done" /\ eRet = 0
    /\ pPc[1] = "done" /\ pPc[2] = "disabled"
    /\ swreg = poll0
    /\ 8 \in swreg["RTL930X_SMI_POLL_CTRL"]

----------------------------------------------------------------------------
(* Lane numbers out of range, and the order of the steps of                   *)
(* rtl9300_force_sds_mode                                                     *)

SerLogOps(ops) == {i \in DOMAIN serSt.log : serSt.log[i].op \in ops}

\* the writes to a mode-select register are those of rtl9300_sds_rst
SerModeSelWrites == SerLogOps({"sw_w32_mask"})

\* C33: a lane number out of range is rejected and no register is modified:
\* with a lane outside 0..11 the routines that call rtl9300_sds_rst write no
\* mode-select register, and rtl9300_configure_serdes for a node without "sds"
\* property (lane -1) returns without an access to a SerDes or MAC register.
C33_LaneRejected ==
    (serPc = "done" /\ serOp \in SerdesSetupOps /\ serArg.of_node
        /\ serArg.sds \notin 0..11) =>
        /\ SerModeSelWrites = {}
        /\ (serOp = "rtl9300_configure_serdes" /\ serArg.sds = -1) => serSt.log = <<>>

\* rtl9300_configure_serdes has returned 0 for a node without "sds" property,
\* having read page 0x1f register 11 of lane -1 and written the MAC force-mode
\* register of the port
C33_AccessesWithoutLane ==
    /\ serPc = "done"
    /\ serOp = "rtl9300_configure_serdes"
    /\ serArg.sds = -1
    /\ serRet = 0
    /\ serSt.log[1].op = "rtl930x_read_sds_phy" /\ serSt.log[1].a = <<-1, 31, 11>>
    /\ serSt.log[2].op = "sw_w32 RTL930X_MAC_FORCE_MODE_CTRL"
    /\ SerModeSelWrites = {}

\* the accesses of a kind to one SerDes register, by their place in the log
SerAccessesAt(op, a) == {i \in DOMAIN serSt.log : serSt.log[i].op = op /\ serSt.log[i].a = a}
SerWritesAt(a) == SerAccessesAt("rtl930x_write_sds_phy", a)

\* the k-th smallest element of a set of indices
SerNth(S, k) == CHOOSE i \in S : Cardinality({j \in S : j < i}) = k - 1

\* the writes of the steps of a direct call of rtl9300_force_sds_mode
ForcePowerDown == SerNth(SerWritesAt(<<serArg.sds, 0, 0>>), 1)
ForceEnable == SerNth(SerWritesAt(<<serArg.sds, 31, 9>>), 1)
ForceLaneOff == SerNth(SerWritesAt(<<serArg.sds, 31, 9>>), 2)
ForceModeCode == SerNth(SerWritesAt(<<serArg.sds, 31, 9>>), 4)

\* the clock-unit and ring writes before the loop: the first six writes to pages
\* 0x20 and 0x21
ForceClockRing ==
    {i \in DOMAIN serSt.log :
        /\ serSt.log[i].op = "rtl930x_write_sds_phy"
        /\ serSt.log[i].a[2] \in {32, 33}
        /\ Cardinality({j \in 1..i : serSt.log[j].op = "rtl930x_write_sds_phy"
                                     /\ serSt.log[j].a[2] \in {32, 33}}) <= 6}

\* the reads of the lane-ready status
ForceProbes == SerAccessesAt("rtl930x_read_sds_phy", <<Lane0(serArg.sds), 31, 20>>)

\* a direct call has got past the writes that precede its loop
ForcePastSetup ==
    /\ serOp = "rtl9300_force_sds_mode"
    /\ serArg.phy_if \in ForceModes
    /\ serPc \in {"loop", "final", "return", "done"}

\* bits 9..7 of a value written to page 0x1f register 9: what the field helper
\* merges of a mode code
ForceModeBits(v) == Shr(v \cap (7..9), 7)

\* C34: rtl9300_force_sds_mode makes its steps in this order: the lane power-down
\* write, the force-mode enable write, the lane-off write (mode field 0x1f), the
\* clock-unit and ring configuration writes, the write of the target mode code,
\* and only then the first probe of the lane-ready status; for mode NA it returns
\* right after the lane-off write and writes no target mode code.
C34_ForceOrder ==
    /\ ForcePastSetup =>
        /\ Cardinality(SerWritesAt(<<serArg.sds, 31, 9>>)) = 4
        /\ Cardinality(ForceClockRing) = 6
        /\ ForcePowerDown < ForceEnable
        /\ ForceEnable < ForceLaneOff
        /\ ForceModeBits(serSt.log[ForceLaneOff].v) = W(7)
        /\ \A c \in ForceClockRing : ForceLaneOff < c /\ c < ForceModeCode
        /\ ForceModeBits(serSt.log[ForceModeCode].v)
               = W(ForceSdsMode(serArg.phy_if)) \cap (0..2)
        /\ \A p \in ForceProbes : ForceModeCode < p
        /\ serPc \in {"final", "return", "done"} => ForceProbes # {}
    /\ (serOp = "rtl9300_force_sds_mode" /\ serArg.phy_if = "NA"
            /\ serPc \in {"return", "done"}) =>
        /\ Cardinality(SerWritesAt(<<serArg.sds, 31, 9>>)) = 2
        /\ ForceLaneOff = Len(serSt.log)
        /\ ForceModeBits(serSt.log[ForceLaneOff].v) = W(7)
        /\ ForceProbes = {}

\* lane 3 was forced to 10GBASE-R: mode code 0x1a merged as 2, the status probed
\* on lane 2 after it
C34_Witness ==
    /\ ForcePastSetup
    /\ serPc = "done"
    /\ serArg.sds = 3 /\ serArg.phy_if = "10GBASER"
    /\ ForceModeBits(serSt.log[ForceModeCode].v) = W(2)
    /\ ForceProbes # {}
    /\ ForceModeCode < SerNth(ForceProbes, 1)

\* mode NA on lane 2: three writes and the return
C34_WitnessNA ==
    /\ serOp = "rtl9300_force_sds_mode" /\ serArg.phy_if = "NA" /\ serPc = "done"
    /\ Len(serSt.log) = 6

----------------------------------------------------------------------------
(* The polling bit of a port between disable_polling and resume_polling *)

\* the operation of thread t has returned from disable_polling and has not yet
\* written in resume_polling
PollBetween(t) == pPc[t] \in {"disabled", "r_write"}

\* C35: while an operation is between its disable_polling(port) and its
\* resume_polling, the polling bit of its port is 0 in every reachable state,
\* also when another operation on another port runs its own disable / resume
\* at the same time.
C35_StaysDisabled ==
    \A t \in Threads :
        (family \in PollImplemented /\ pPort[1] # pPort[2] /\ PollBetween(t))
            => pPort[t] \notin PollMaskOf(family, swreg)

\* thread 2 disabled polling of port 8 after thread 1 had disabled port 0; thread
\* 1 has resumed, and port 8 is polled again while thread 2 is still at work
C35_PollingBackOn ==
    /\ family = RTL8380_FAMILY_ID
    /\ pPort[1] = 0 /\ pPort[2] = 8
    /\ pPc[1] = "done"
    /\ pPc[2] = "disabled"
    /\ 0 \in pSaved[1] /\ 8 \in pSaved[1]
    /\ 0 \notin pSaved[2]
    /\ 8 \in swreg["RTL838X_SMI_POLL_CTRL"]

----------------------------------------------------------------------------
(* The polling mask after an EEE set operation *)

\* C36: every EEE set operation that completes, on every family, leaves the whole
\* polling mask as it was before the operation; rtl8214fc_set_eee on an RTL8390,
\* whose mask is 64 bits wide, restores the high word (ports 32..51) as well as
\* the low word.
C36_MaskRestored ==
    (eOp \in EeeSetOps /\ ePc = "done") => swreg = poll0

\* rtl8214fc_set_eee has returned 0 on an RTL8390: the low word is restored and
\* the high word, which had ports enabled, is 0
C36_HighWordLost ==
    /\ family = RTL8390_FAMILY_ID
    /\ eOp = "rtl8214fc_set_eee"
    /\ ePc = "done" /\ eRet = 0
    /\ poll0["RTL839X_SMI_PORT_POLLING_CTRL_4"] # {}
    /\ swreg["RTL839X_SMI_PORT_POLLING_CTRL_4"] = {}
    /\ swreg["RTL839X_SMI_PORT_POLLING_CTRL"] = poll0["RTL839X_SMI_PORT_POLLING_CTRL"]

----------------------------------------------------------------------------
(* EEE of the RTL8226: rtl8226_set_eee followed by rtl8226_get_eee *)

MMD_AN == 7

\* lines 595-614: the progress after the reads, and e->eee_enabled on return
rtl8226_get_eee_body(st, addr, eee_enabled) ==
    The({IF eee_enabled
         THEN IF Bit(1, s1.val) THEN [st |-> s1, enabled |-> TRUE]
              ELSE The({[st |-> s2, enabled |-> Bit(0, s2.val)] :
                        s2 \in {read_mmd_phy(s1, addr, MMD_AN, 62)}})
         ELSE [st |-> s1, enabled |-> FALSE] :
         s1 \in {read_mmd_phy(st, addr, MMD_AN, 60)}})

\* rtl8226_get_eee called after rtl8226_set_eee has returned
rtl8226_get_eee ==
    /\ eOp = "rtl8226_set_eee" /\ ePc = "done"
    /\ \E asked \in BOOLEAN :
        \E r \in {rtl8226_get_eee_body(EeeSt, ePort, asked)} :
            /\ eLog' = r.st.log
            /\ eGet' = [asked |-> asked, enabled |-> r.enabled, ret |-> 0]
    /\ ePc' = "got"
    /\ UNCHANGED <<family, swreg, phyMem, phyFill, eOp, ePort, eArg, ePollState, eRet>>
    /\ UNCHANGED <<sdsVars, pollVars, fwVars, cfgVars, dispVars, serVars, statVars,
                   concVars, heap, s839Vars>>

\* what the registers of the PHY hold before the operation
Eee8226Fills == {{}, Bits16, W(2), W(4), W(6), W(1), W(4096), W(65528)}

Eee8226Init ==
    /\ family \in SupportedFamilies
    /\ \E m \in {0..27} : swreg = PollRegsOf(family, m)
    /\ phyMem = <<>>
    /\ phyFill \in Eee8226Fills
    /\ eOp = "rtl8226_set_eee"
    /\ ePort \in {0, 8}
    /\ eArg \in BOOLEAN
    /\ ePc = "entry"
    /\ ePollState \in PollUninit
    /\ eLog = <<>>
    /\ eRet = 0
    /\ SdsOff
    /\ PollOff
    /\ FwOff
    /\ CfgOff
    /\ MoreOff

Eee8226Next ==
    \/ EeeDisable
    \/ EeeRun
    \/ EeeResume
    \/ rtl8226_get_eee

SpecEee8226 == Eee8226Init /\ [][Eee8226Next]_vars

\* a register of the MMD_AN device of the port
Eee8226Reg(reg) == MemGet(phyMem, <<"mmd", ePort, MMD_AN, reg>>)

\* C37: with the PHY registers plain memory, after rtl8226_set_eee with
\* eee_enabled = 0 the EEE advertisement bits (bits 1 and 2 of MMD 7 register 60,
\* bit 0 of register 62) are clear and rtl8226_get_eee reports EEE disabled,
\* whatever the registers held; after a set with eee_enabled = 1, a get asked with
\* eee_enabled = 1 reports enabled; and the bits of the two registers outside the
\* EEE bits are not changed by set.
C37_SetThenGet ==
    ePc = "got" =>
        /\ ~eArg =>
            /\ Eee8226Reg(60) \cap W(6) = {}
            /\ Eee8226Reg(62) \cap W(1) = {}
            /\ ~eGet.enabled
        /\ (eArg /\ eGet.asked) => eGet.enabled
        /\ Eee8226Reg(60) \ W(6) = phyFill \ W(6)
        /\ Eee8226Reg(62) \ W(1) = phyFill \ W(1)

\* EEE was advertised and other bits were set; after the set with
\* eee_enabled = 0 the EEE bits are all that is left in the registers and the get
\* reports enabled
C37_StillEnabled ==
    /\ ePc = "got"
    /\ phyFill = Bits16
    /\ ~eArg
    /\ eGet.asked /\ eGet.enabled
    /\ Eee8226Reg(60) = W(6)
    /\ Eee8226Reg(62) = W(1)

----------------------------------------------------------------------------
(* The read step and the write step of rtl9310_sds_field_w *)

\* rtl9310_sds_field_w has returned
Field9310Written == serOp = "rtl9310_sds_field" /\ serPc \in {"field_r", "done"}

\* C38: rtl9310_sds_field_w does its read-modify-write on one register: the read
\* and the write both go through the indirect protocol of the RTL931x, with the
\* same lane, page and register, so that the bits outside the field that are
\* written back are those the addressed RTL931x register holds.
C38_SameRegisterRmw ==
    (Field9310Written /\ FieldNoTimeout) =>
        /\ serSt.log[1].op = "rtl931x_read_sds_phy"
        /\ serSt.log[2].op = "rtl931x_write_sds_phy"
        /\ serSt.log[1].a = serArg.a /\ serSt.log[2].a = serArg.a
        /\ serSt.log[2].v \ FieldBits(serArg.end_bit, serArg.start_bit)
               = FieldOld \ FieldBits(serArg.end_bit, serArg.start_bit)

\* field 11..7 of an RTL931x register that holds 0: the read step went to the
\* RTL930x command register and delivered 0xa5a5, whose bits outside the field
\* are now in the RTL931x register
C38_ForeignBitsWritten ==
    /\ Field9310Written
    /\ serPc = "field_r"
    /\ serArg.end_bit = 11 /\ serArg.start_bit = 7
    /\ serEnv.fill = {} /\ serEnv.hang = {} /\ serEnv.foreign = W(42405)
    /\ serSt.log[1].op = "rtl930x_read_sds_phy"
    /\ serSt.log[2].op = "rtl931x_write_sds_phy"
    /\ FieldReg \ FieldBits(11, 7) = W(42405) \ FieldBits(11, 7)

----------------------------------------------------------------------------
(* SerDes initialisation on the RTL9310: rtl931x_sds_init *)

\* the calls of rtl931x_sds_init and of the routines it calls, as data
C9FieldW(a, e, b, v) ==
    [op |-> "rtl9310_sds_field_w", a |-> a, e |-> e, s |-> b, v |-> W(v), clr |-> {}]
C9Write(a, v) ==
    [op |-> "rtl931x_write_sds_phy", a |-> a, e |-> 0, s |-> 0, v |-> W(v), clr |-> {}]
C9Read(a) ==
    [op |-> "rtl931x_read_sds_phy", a |-> a, e |-> 0, s |-> 0, v |-> {}, clr |-> {}]

\* lines 2186-2193
rtl931x_get_analog_sds(sds) ==
    IF sds < 14 THEN <<0, 1, 2, 3, 6, 7, 10, 11, 14, 15, 18, 19, 22, 23>>[sds + 1]
    ELSE sds

\* lines 2498-2501
Init931DSds(sds) == IF sds < 2 THEN sds ELSE (sds - 1) * 2

\* lines 2427-2441 and 2443-2449: page, reg, data
sds_config_10p3125g_type1 ==
    <<<<46, 0, 263>>, <<46, 1, 419>>, <<46, 2, 27172>>, <<46, 3, 53517>>,
      <<46, 4, 32768>>, <<46, 5, 41342>>, <<46, 6, 58141>>, <<46, 7, 32782>>,
      <<46, 8, 660>>, <<46, 9, 3300>>, <<46, 10, 32712>>, <<46, 11, 57575>>,
      <<46, 12, 512>>, <<46, 13, 57216>>, <<46, 14, 0>>, <<46, 15, 8130>>,
      <<46, 16, 3135>>, <<46, 17, 0>>, <<46, 18, 10176>>, <<46, 19, 32285>>,
      <<46, 20, 4864>>, <<46, 21, 63>>, <<46, 22, 48767>>, <<46, 23, 144>>,
      <<46, 24, 0>>, <<46, 25, 16384>>, <<46, 26, 0>>, <<46, 27, 32768>>,
      <<46, 28, 287>>, <<46, 29, 0>>, <<46, 30, 51455>>, <<46, 31, 0>>,
      <<47, 0, 49152>>, <<47, 1, 61440>>, <<47, 2, 24592>>, <<47, 18, 3815>>,
      <<47, 19, 0>>>>

sds_config_10p3125g_cmu_type1 ==
    <<<<47, 3, 16912>>, <<47, 4, 0>>, <<47, 5, 25>>, <<47, 6, 6310>>,
      <<47, 7, 10640>>, <<47, 8, 65524>>, <<47, 9, 7944>>, <<47, 10, 0>>,
      <<47, 11, 32768>>, <<47, 12, 16932>>, <<47, 13, 0>>, <<47, 14, 0>>,
      <<47, 15, 42096>>, <<47, 16, 32768>>, <<47, 17, 891>>>>

\* lines 2454-2464
board_sds_tx_type1 == <<451, 451, 451, 419, 419, 419, 323, 323, 323, 323, 355, 355>>
board_sds_tx == <<6656, 6656, 512, 512, 512, 512, 419, 419, 419, 419, 483, 483>>
board_sds_tx2 == <<3520, 448, 512, 384, 352, 291, 291, 355, 419, 416, 451, 2499>>

\* the writes of a table to a lane, the pages lowered by 4: lines 2540-2549
Init931Table(lane, t) == [i \in DOMAIN t |-> C9Write(<<lane, t[i][1] - 4, t[i][2]>>, t[i][3])]

\* lines 2363-2381
rtl931x_sds_rx_rst(sds) ==
    IF sds < 2 THEN <<>>
    ELSE The({<<C9Write(<<asds, 46, 18>>, 10048), C9Write(<<asds, 47, 0>>, 0),
                C9Write(<<asds, 47, 2>>, 8208), C9Write(<<asds, 32, 0>>, 3088),
                C9Write(<<asds, 46, 18>>, 10176), C9Write(<<asds, 47, 0>>, 49152),
                C9Write(<<asds, 47, 2>>, 24592), C9Write(<<asds, 32, 0>>, 3120)>> :
              asds \in {rtl931x_get_analog_sds(sds)}})

\* lines 2475-2504: the reads made for the log lines.  dSds is read at lines
\* 2487-2488 before it is assigned at 2498-2501 and holds what the stack holds
\* (serEnv.dsds)
Init931Diag(sds) ==
    The({<<C9Read(<<asds, 31, 9>>), C9Read(<<asds, 31, 9>>), C9Read(<<asds, 36, 9>>),
           C9Read(<<asds - (asds % 2), 32, 18>>), C9Read(<<asds, 36, 7>>),
           C9Read(<<asds, 38, 7>>), C9Read(<<asds, 40, 7>>),
           C9Read(<<serEnv.dsds, 0, 14>>), C9Read(<<serEnv.dsds + 1, 0, 14>>),
           C9Read(<<Init931DSds(sds), 1, 20>>)>> :
         asds \in {rtl931x_get_analog_sds(sds)}})

\* the modes with a case of their own in the switch at lines 2511-2616
Init931Supported ==
    {"NA", "XGMII", "USXGMII", "10GBASER", "HSGMII", "1000BASEX", "SGMII", "2500BASEX"}
Init931Modes == Init931Supported \cup {"QSGMII", "XAUI"}

\* lines 2595-2600, also 2579-2583
Init931Fiber1g(dSds) ==
    <<C9FieldW(<<dSds, 3, 19>>, 15, 14, 0), C9FieldW(<<dSds, 2, 0>>, 12, 12, 1),
      C9FieldW(<<dSds, 2, 0>>, 6, 6, 1), C9FieldW(<<dSds, 2, 0>>, 13, 13, 0)>>

\* lines 2511-2616: the configuration of a supported mode
Init931Config(sds, mode, chiptype) ==
    The({The({
        IF mode = "NA" THEN <<>>
        ELSE IF mode = "XGMII" THEN
            (IF chiptype
             THEN <<C9FieldW(<<dSds, 1, 1>>, 7, 4, 15), C9FieldW(<<dSds, 1, 1>>, 3, 0, 15),
                    C9FieldW(<<dSds + 1, 1, 1>>, 7, 4, 15),
                    C9FieldW(<<dSds + 1, 1, 1>>, 3, 0, 15)>>
             ELSE <<>>)
            \o <<C9FieldW(<<dSds, 0, 14>>, 12, 12, 1),
                 C9FieldW(<<dSds + 1, 0, 14>>, 12, 12, 1)>>
        ELSE IF mode = "USXGMII" THEN
            IF chiptype
            THEN <<C9FieldW(<<asds, 6, 2>>, 12, 12, 1)>>
                 \o Init931Table(asds, sds_config_10p3125g_type1)
                 \o Init931Table(asds - (asds % 2), sds_config_10p3125g_cmu_type1)
                 \o <<C9FieldW(<<asds, 6, 2>>, 12, 12, 0)>>
            ELSE <<C9FieldW(<<asds, 46, 13>>, 6, 0, 0), C9FieldW(<<asds, 46, 13>>, 7, 7, 1),
                   C9FieldW(<<asds, 46, 28>>, 5, 0, 30), C9FieldW(<<asds, 46, 29>>, 11, 0, 0),
                   C9FieldW(<<asds, 46, 31>>, 11, 0, 0), C9FieldW(<<asds, 47, 0>>, 11, 0, 0),
                   C9FieldW(<<asds, 47, 1>>, 11, 0, 0), C9FieldW(<<asds, 46, 15>>, 12, 6, 127),
                   C9Write(<<asds, 47, 18>>, 2730)>>
                 \o rtl931x_sds_rx_rst(sds)
                 \o <<C9Write(<<asds, 7, 16>>, 24579), C9Write(<<asds, 6, 29>>, 1152),
                      C9Write(<<asds, 6, 14>>, 1024)>>
        ELSE IF mode = "10GBASER" THEN
            <<C9FieldW(<<asds, 31, 11>>, 1, 1, 1)>>
            \o Init931Fiber1g(dSds)
            \o <<C9FieldW(<<asds, 31, 13>>, 15, 0, 4254),
                 C9FieldW(<<asds, 31, 6>>, 14, 10, 8),
                 C9FieldW(<<asds, 31, 7>>, 10, 4, 127)>>
        ELSE IF mode \in {"HSGMII", "2500BASEX"} THEN <<C9FieldW(<<dSds, 1, 20>>, 8, 8, 1)>>
        ELSE IF mode = "1000BASEX" THEN Init931Fiber1g(dSds)
        ELSE <<C9FieldW(<<asds, 36, 9>>, 15, 15, 0)>> :
        dSds \in {Init931DSds(sds)}}) :
        asds \in {rtl931x_get_analog_sds(sds)}})

\* lines 2245-2268, for the modes that reach it
rtl931x_sds_cmu_page_get(mode) == IF mode \in {"SGMII", "1000BASEX"} THEN 36 ELSE 40

\* lines 2270-2361
rtl931x_cmu_type_set(asds, mode, chiptype) ==
    IF mode \notin {"HSGMII", "1000BASEX", "SGMII", "2500BASEX"} THEN <<>>
    ELSE The({The({
        <<C9Read(<<asds, 40, 7>>), C9FieldW(<<asds, page, 7>>, 15, 15, 0),
          C9Read(<<asds, 40, 7>>)>>
        \o (IF chiptype THEN <<C9FieldW(<<asds, page, 13>>, 14, 14, 0)>> ELSE <<>>)
        \o <<C9FieldW(<<asds - lane, 32, 18>>, 3, 2, 3),
             C9FieldW(<<asds - lane, 32, 18>>, 4 + 2 * lane, 4 + 2 * lane, 1),
             C9FieldW(<<asds - lane, 32, 18>>, 5 + 2 * lane, 5 + 2 * lane, 0),
             C9FieldW(<<asds - lane, 32, 18>>, 12, 12, 1),
             C9FieldW(<<asds - lane, 32, 18>>, 15, 13,
                      IF mode \in {"HSGMII", "2500BASEX"} THEN 1 ELSE 0),
             C9Read(<<asds, 40, 7>>)>> :
        lane \in {asds % 2}}) :
        page \in {rtl931x_sds_cmu_page_get(mode)}})

\* lines 2620-2636: the TX setting of the board; RTL931X_CHIP_INFO_ADDR is written
\* with 0xa0000, read, and written with 0
Init931BoardTx(sds, chiptype) ==
    IF sds < 2 \/ sds > 13 THEN <<>>
    ELSE IF chiptype
    THEN <<C9Write(<<rtl931x_get_analog_sds(sds), 46, 1>>, board_sds_tx_type1[sds - 1])>>
    ELSE <<CSw("sw_w32 RTL931X_CHIP_INFO_ADDR", 0, W(655360)),
           C9Write(<<rtl931x_get_analog_sds(sds), 46, 1>>,
                   IF serEnv.chip28 THEN board_sds_tx2[sds - 1] ELSE board_sds_tx[sds - 1]),
           CSw("sw_w32 RTL931X_CHIP_INFO_ADDR", 0, {})>>

\* lines 2642-2649 with rtl931x_sds_mii_mode_set (2391-2419) and
\* rtl931x_sds_fiber_mode_set (2203-2243): the mode register and the analog mode
Init931ModeSet(sds, mode) ==
    IF mode = "XGMII"
    THEN <<CSw("sw_w32 RTL931X_SERDES_MODE_CTRL", sds \div 4, W(144))>>
    ELSE IF mode \in {"HSGMII", "SGMII", "USXGMII"}
    THEN <<CSw("sw_w32 RTL931X_SERDES_MODE_CTRL", sds \div 4, W(159)),
           C9FieldW(<<rtl931x_get_analog_sds(sds), 31, 9>>, 11, 6,
                    IF mode = "SGMII" THEN 5 ELSE IF mode = "USXGMII" THEN 27 ELSE 37)>>
    ELSE <<>>

\* sw_w32(val, RTL931X_PS_SERDES_OFF_MODE_CTRL_ADDR)
Init931OffWrite(st, val) ==
    [st EXCEPT !.off = val,
               !.log = SerLogged(st, "sw_w32 RTL931X_PS_SERDES_OFF_MODE_CTRL_ADDR",
                                 <<0, 0, 0>>, val)]

\* lines 2466-2509: the range test, the reads for the log, and the lane's bit set
\* in the off-mode register
rtl931x_sds_init_entry ==
    /\ serOp = "rtl931x_sds_init" /\ serPc = "entry"
    /\ IF serArg.sds > 13
       THEN serPc' = "done" /\ UNCHANGED serSt
       ELSE /\ \E s \in {SerAll(serSt, Init931Diag(serArg.sds))} :
                serSt' = Init931OffWrite([s EXCEPT !.ori = s.off],
                                         Or32(s.off, BIT(serArg.sds)))
            /\ serPc' = "mode"
    /\ UNCHANGED <<family, serOp, serArg, serEnv, serI, serRet, notSerdes>>

\* lines 2511-2616: the switch over the mode
rtl931x_sds_init_mode ==
    /\ serOp = "rtl931x_sds_init" /\ serPc = "mode"
    /\ IF serArg.mode \notin Init931Supported
       THEN serPc' = "done" /\ UNCHANGED serSt
       ELSE /\ serSt' = SerAll(serSt, Init931Config(serArg.sds, serArg.mode,
                                                    serEnv.chiptype))
            /\ serPc' = "tx"
    /\ UNCHANGED <<family, serOp, serArg, serEnv, serI, serRet, notSerdes>>

\* lines 2618-2640: the clock unit, the TX setting, and the off-mode register
\* written with ori & ~BIT(sds)
rtl931x_sds_init_restore ==
    /\ serOp = "rtl931x_sds_init" /\ serPc = "tx"
    /\ \E s \in {SerAll(serSt,
                        rtl931x_cmu_type_set(rtl931x_get_analog_sds(serArg.sds),
                                             serArg.mode, serEnv.chiptype)
                        \o Init931BoardTx(serArg.sds, serEnv.chiptype))} :
        serSt' = Init931OffWrite(s, And32(s.ori, Not32(BIT(serArg.sds))))
    /\ serPc' = "modeset"
    /\ UNCHANGED <<family, serOp, serArg, serEnv, serI, serRet, notSerdes>>

\* lines 2642-2650
rtl931x_sds_init_mode_set ==
    /\ serOp = "rtl931x_sds_init" /\ serPc = "modeset"
    /\ serSt' = SerAll(serSt, Init931ModeSet(serArg.sds, serArg.mode))
    /\ serPc' = "done"
    /\ UNCHANGED <<family, serOp, serArg, serEnv, serI, serRet, notSerdes>>

\* the off-mode register at entry
Init931Oris == {{}, {0, 2, 5}, Bits32 \ {13}}

Init931Envs ==
    [hang : {{}}, dead : {FALSE}, readyAt : {0}, ub : FieldUbMasks, fill : {W(4096)},
     foreign : {{}, W(42405)}, chiptype : BOOLEAN, chip28 : BOOLEAN, dsds : {0, 77}]

Init931Init ==
    /\ family = RTL9310_FAMILY_ID
    /\ serOp = "rtl931x_sds_init"
    /\ serArg \in [sds : {0, 2, 13, 14}, mode : Init931Modes]
    /\ serEnv \in Init931Envs
    /\ \E ori \in Init931Oris :
        serSt = [mem |-> <<>>, data |-> {}, busy |-> FALSE, log |-> <<>>,
                 off |-> ori, ori |-> {}]
    /\ serPc = "entry"
    /\ serI = 0
    /\ serRet = 0
    /\ NotSerOff

Init931Next ==
    \/ rtl931x_sds_init_entry
    \/ rtl931x_sds_init_mode
    \/ rtl931x_sds_init_restore
    \/ rtl931x_sds_init_mode_set

SpecInit931 == Init931Init /\ [][Init931Next]_vars

\* the writes made so far, to a SerDes register or to a switch register other
\* than the off-mode register
Init931ConfigWrites ==
    SerLogOps({"rtl931x_write_sds_phy", "sw_w32 RTL931X_CHIP_INFO_ADDR",
               "sw_w32 RTL931X_SERDES_MODE_CTRL"})

\* the off-mode register as the first write left it
Init931BitSet ==
    /\ serArg.sds \in serSt.off
    /\ serSt.off \ BIT(serArg.sds) = serSt.ori \ BIT(serArg.sds)

\* C39: rtl931x_sds_init sets the bit of the lane in the off-mode register before
\* it configures the lane, and on every path that returns after the bit was set,
\* the path of an unsupported mode included, the bit is cleared again and all other
\* bits of the register have their value at entry.
C39_OffModeRestored ==
    /\ (serOp = "rtl931x_sds_init" /\ serPc = "mode") =>
        /\ Init931BitSet
        /\ Init931ConfigWrites = {}
    /\ (serOp = "rtl931x_sds_init" /\ serPc = "tx") => Init931BitSet
    /\ (serOp = "rtl931x_sds_init" /\ serPc = "done" /\ serArg.sds <= 13) =>
        /\ serArg.sds \notin serSt.off
        /\ serSt.off \ BIT(serArg.sds) = serSt.ori \ BIT(serArg.sds)

\* rtl931x_sds_init(2, PHY_INTERFACE_MODE_QSGMII) has returned: lane 2, which was
\* not switched off at entry, is left switched off
C39_LeftOff ==
    /\ serOp = "rtl931x_sds_init" /\ serPc = "done"
    /\ serArg.sds = 2 /\ serArg.mode = "QSGMII"
    /\ 2 \notin serSt.ori
    /\ 2 \in serSt.off
    /\ Len(serSt.log) = 11

----------------------------------------------------------------------------
(* Medium of the RTL8214FC: rtl8214fc_set_port followed by rtl8214fc_get_port *)

\* the four ports of the package of a port
MediaPackage(mac) == {mac - (mac % 4) + i : i \in 0..3}

\* the page-select register of the package
MediaPageSelect(mac) == MemGet(phyMem, <<"phy", mac - (mac % 4), 4095, 29>>)

\* lines 1079-1087: the progress after the accesses, and the value returned
rtl8214fc_get_port_body(st, addr) ==
    The({[st |-> r.st, ret |-> IF r.fibre THEN "PORT_FIBRE" ELSE "PORT_MII"] :
         r \in {rtl8380_rtl8214fc_media_is_fibre(st, addr)}})

\* rtl8214fc_get_port on a port of the package, after rtl8214fc_set_port has
\* returned
rtl8214fc_get_port ==
    /\ eOp = "rtl8214fc_set_port" /\ ePc = "done"
    /\ \E addr \in MediaPackage(ePort) :
        \E r \in {rtl8214fc_get_port_body(EeeSt, addr)} :
            /\ phyMem' = r.st.mem
            /\ eLog' = r.st.log
            /\ eGet' = [addr |-> addr, ret |-> r.ret]
    /\ ePc' = "got"
    /\ UNCHANGED <<family, swreg, phyFill, eOp, ePort, eArg, ePollState, eRet>>
    /\ UNCHANGED <<sdsVars, pollVars, fwVars, cfgVars, dispVars, serVars, statVars,
                   concVars, heap, s839Vars>>

\* the ports operated on: one package from port 8 on, and a port of the first
MediaPorts == {1, 8, 9, 10, 11}

\* what the medium registers of the four ports hold before the operation
MediaPriors == [0..3 -> {{}, BIT(11)}]

MediaInit ==
    /\ family \in {RTL8380_FAMILY_ID, RTL8390_FAMILY_ID}
    /\ swreg = PollRegsOf(family, 0..27)
    /\ phyFill \in PhyFills
    /\ eOp = "rtl8214fc_set_port"
    /\ ePort \in MediaPorts
    /\ \E prior \in MediaPriors :
        phyMem = [k \in {<<"phy", ePort - (ePort % 4), 614, MediaReg(i)>> : i \in 0..3} |->
                    prior[CHOOSE i \in 0..3 : MediaReg(i) = k[4]]]
    /\ eArg \in BOOLEAN
    /\ ePc = "entry"
    /\ ePollState = {}
    /\ eLog = <<>>
    /\ eRet = 0
    /\ SdsOff
    /\ PollOff
    /\ FwOff
    /\ CfgOff
    /\ MoreOff

MediaNext ==
    \/ rtl8214fc_set_port
    \/ rtl8214fc_get_port

SpecMedia == MediaInit /\ [][MediaNext]_vars

\* what rtl8214fc_get_port would return for a port on the registers mem
MediaReported(mem, addr) ==
    rtl8214fc_get_port_body([mem |-> mem, log |-> <<>>, val |-> {}], addr).ret

\* C40: with the PHY registers plain memory, rtl8214fc_get_port after
\* rtl8214fc_set_port(port, fibre) returns PORT_FIBRE and after set_port(port,
\* copper) returns PORT_MII, for every port and every prior register content;
\* set_port does not change the medium reported for the other three ports of the
\* package; and the page-select register is 0 when either operation returns.
C40_SetThenGet ==
    /\ [](ePc = "got" /\ eGet.addr = ePort =>
            eGet.ret = IF eArg THEN "PORT_FIBRE" ELSE "PORT_MII")
    /\ [][ePc = "entry" /\ ePc' = "done" =>
            \A addr \in MediaPackage(ePort) \ {ePort} :
                MediaReported(phyMem', addr) = MediaReported(phyMem, addr)]_vars
    /\ [](ePc \in {"done", "got"} => MediaPageSelect(ePort) = {})

\* port 9, which reported copper, was set to fibre and reports fibre; port 10 is
\* asked next and still reports copper
C40_Witness ==
    /\ ePc = "got" /\ ePort = 9 /\ eArg
    /\ eGet = [addr |-> 9, ret |-> "PORT_FIBRE"]
    /\ MediaReported(phyMem, 10) = "PORT_MII"
    /\ MediaReported(phyMem, 8) = "PORT_FIBRE"
    /\ Bit(11, eLog[2].v)
    /\ Len(eLog) > 10

====
